---- MODULE Spec2Model ----
(***************************************************************************)
(* RupeeRadar: the SMS-to-transaction pipeline.                            *)
(*                                                                         *)
(*   - utils/smsParser.ts      BANK_PATTERNS, extractGenericTransaction,   *)
(*                             parseTransactionSMS, isTransactionSMS       *)
(*   - services/smsService.ts  recently-processed cache, processSMSMessage,*)
(*                             readSMSMessages, startSMSListener           *)
(*   - services/storageService.ts  saveTransaction, clearAllTransactions,  *)
(*                             addSampleTransactions                       *)
(*   - app/sms-input.tsx       the manual paste screen                     *)
(*   - context/SMSContext.tsx  SMSProvider                                 *)
(*                                                                         *)
(* SMS texts are strings; the regular expressions of the parser are        *)
(* matched character by character by a small backtracking matcher.         *)
(***************************************************************************)
EXTENDS Integers, Sequences, FiniteSets, TLC

(***************************************************************************)
(* Characters and strings                                                  *)
(***************************************************************************)
Digits == {"0", "1", "2", "3", "4", "5", "6", "7", "8", "9"}
LowerLetters == {"a", "b", "c", "d", "e", "f", "g", "h", "i", "j", "k", "l", "m",
                 "n", "o", "p", "q", "r", "s", "t", "u", "v", "w", "x", "y", "z"}
UpperLetters == {"A", "B", "C", "D", "E", "F", "G", "H", "I", "J", "K", "L", "M",
                 "N", "O", "P", "Q", "R", "S", "T", "U", "V", "W", "X", "Y", "Z"}
WhiteSpace == {" ", "\t", "\n"}

UpperOf == [c \in LowerLetters |->
              CASE c = "a" -> "A" [] c = "b" -> "B" [] c = "c" -> "C" [] c = "d" -> "D"
                [] c = "e" -> "E" [] c = "f" -> "F" [] c = "g" -> "G" [] c = "h" -> "H"
                [] c = "i" -> "I" [] c = "j" -> "J" [] c = "k" -> "K" [] c = "l" -> "L"
                [] c = "m" -> "M" [] c = "n" -> "N" [] c = "o" -> "O" [] c = "p" -> "P"
                [] c = "q" -> "Q" [] c = "r" -> "R" [] c = "s" -> "S" [] c = "t" -> "T"
                [] c = "u" -> "U" [] c = "v" -> "V" [] c = "w" -> "W" [] c = "x" -> "X"
                [] c = "y" -> "Y" [] OTHER -> "Z"]

LowerOf == [c \in UpperLetters |-> CHOOSE l \in LowerLetters : UpperOf[l] = c]

CharAt(s, i) == SubSeq(s, i, i)

\* the element of a set of one element: Val({e(x) : x \in {v}}) is e with x
\* standing for the value of v, worked out once
Val(S) == CHOOSE x \in S : TRUE

Min(S) == CHOOSE x \in S : \A y \in S : x <= y
Max(S) == CHOOSE x \in S : \A y \in S : x >= y

\* String.prototype.toLowerCase / toUpperCase (halving keeps the recursion shallow)
RECURSIVE toLowerCase(_)
toLowerCase(s) ==
  IF Len(s) = 0 THEN ""
  ELSE IF Len(s) = 1 THEN (IF s \in UpperLetters THEN LowerOf[s] ELSE s)
  ELSE toLowerCase(SubSeq(s, 1, Len(s) \div 2)) \o toLowerCase(SubSeq(s, Len(s) \div 2 + 1, Len(s)))

RECURSIVE toUpperCase(_)
toUpperCase(s) ==
  IF Len(s) = 0 THEN ""
  ELSE IF Len(s) = 1 THEN (IF s \in LowerLetters THEN UpperOf[s] ELSE s)
  ELSE toUpperCase(SubSeq(s, 1, Len(s) \div 2)) \o toUpperCase(SubSeq(s, Len(s) \div 2 + 1, Len(s)))

\* the text of s at position pos starts with lit
StartsAt(s, pos, lit) ==
  /\ pos + Len(lit) - 1 <= Len(s)
  /\ SubSeq(s, pos, pos + Len(lit) - 1) = lit

\* String.prototype.includes
Includes(s, sub) == \E p \in 1..(Len(s) - Len(sub) + 1) : StartsAt(s, p, sub)

\* String.prototype.substring(0, n)
Substring0(s, n) == SubSeq(s, 1, IF n < Len(s) THEN n ELSE Len(s))

\* String.prototype.trim
Trim(s) ==
  LET inked == {i \in 1..Len(s) : CharAt(s, i) \notin WhiteSpace}
  IN IF inked = {} THEN "" ELSE SubSeq(s, Min(inked), Max(inked))

\* smsText.replace(/\s+/g, ' '): every run of white space becomes one space.
\* CollapseRange is the image of s[lo..hi]: a white-space character that
\* follows another one is dropped, any other one becomes a space.
RECURSIVE CollapseRange(_, _, _)
CollapseRange(s, lo, hi) ==
  IF lo > hi THEN ""
  ELSE IF lo = hi
       THEN IF CharAt(s, lo) \notin WhiteSpace THEN CharAt(s, lo)
            ELSE IF lo > 1 /\ CharAt(s, lo - 1) \in WhiteSpace THEN "" ELSE " "
       ELSE CollapseRange(s, lo, (lo + hi) \div 2) \o CollapseRange(s, (lo + hi) \div 2 + 1, hi)

CollapseWhiteSpace(s) == CollapseRange(s, 1, Len(s))

\* str.replace(/,/g, '')
RECURSIVE StripCommas(_)
StripCommas(s) ==
  IF Len(s) = 0 THEN ""
  ELSE IF Len(s) = 1 THEN (IF s = "," THEN "" ELSE s)
  ELSE StripCommas(SubSeq(s, 1, Len(s) \div 2)) \o StripCommas(SubSeq(s, Len(s) \div 2 + 1, Len(s)))

\* number of consecutive characters of class cs from pos, at most hi
ClassRun(s, pos, cs, hi) ==
  LET stops == {i \in pos..Len(s) : CharAt(s, i) \notin cs}
      n == (IF stops = {} THEN Len(s) + 1 ELSE Min(stops)) - pos
  IN IF n > hi THEN hi ELSE n

(***************************************************************************)
(* Numbers.  A JavaScript number that parseFloat can return from a string  *)
(* of digits and dots is a decimal m / 10^e, kept with no trailing zero in *)
(* the fraction so that equal numbers are equal records; NaN and the       *)
(* undefined of an optional field are values of their own.                 *)
(***************************************************************************)
NaN == [k |-> "nan", m |-> 0, e |-> 0]
Undefined == [k |-> "undefined", m |-> 0, e |-> 0]

RECURSIVE Normalise(_, _)
Normalise(m, e) ==
  IF e > 0 /\ m % 10 = 0 THEN Normalise(m \div 10, e - 1) ELSE [k |-> "num", m |-> m, e |-> e]

Number(m) == [k |-> "num", m |-> m, e |-> 0]

DigitVal(c) ==
  CASE c = "0" -> 0 [] c = "1" -> 1 [] c = "2" -> 2 [] c = "3" -> 3 [] c = "4" -> 4
    [] c = "5" -> 5 [] c = "6" -> 6 [] c = "7" -> 7 [] c = "8" -> 8 [] OTHER -> 9

RECURSIVE DigitsValue(_)
DigitsValue(s) ==
  IF Len(s) = 0 THEN 0
  ELSE DigitsValue(SubSeq(s, 1, Len(s) - 1)) * 10 + DigitVal(CharAt(s, Len(s)))

\* parseFloat on a string of digits, dots and commas: the longest prefix that
\* is a decimal literal (digits, optionally a dot and digits, or a dot and
\* digits); NaN when there is no such prefix.
parseFloatTrimmed(s) ==
  LET n1 == ClassRun(s, 1, Digits, Len(s))
      dot == n1 + 1 <= Len(s) /\ CharAt(s, n1 + 1) = "."
      n2 == IF dot THEN ClassRun(s, n1 + 2, Digits, Len(s)) ELSE 0
  IN IF n1 = 0 /\ n2 = 0 THEN NaN
     ELSE Normalise(DigitsValue(SubSeq(s, 1, n1) \o SubSeq(s, n1 + 2, n1 + 1 + n2)), n2)

parseFloat(str) == Val({parseFloatTrimmed(s) : s \in {Trim(str)}})

(***************************************************************************)
(* Regular expressions.  A pattern is a sequence of items; Match gives the *)
(* result of the backtracking search of a JavaScript RegExp without the g  *)
(* flag: leftmost start, greedy classes longest first, the lazy (.*?)      *)
(* shortest first, alternatives in the order written.  The search takes,   *)
(* item by item, the choice it prefers among those from which the rest of  *)
(* the pattern still matches; these are worked out first, backwards.       *)
(* Patterns with the i flag are written in lower case and matched against  *)
(* the lower-cased text; the captures are cut from the text as given.      *)
(***************************************************************************)
Unbounded == 100000

Lit(s)          == [t |-> "lit",   s |-> s,  alts |-> <<>>, cs |-> {}, min |-> 0, max |-> 0, g |-> 0]
Cls(cs, lo, hi) == [t |-> "cls",   s |-> "", alts |-> <<>>, cs |-> cs, min |-> lo, max |-> hi, g |-> 0]
Lazy            == [t |-> "lazy",  s |-> "", alts |-> <<>>, cs |-> {}, min |-> 0, max |-> 0, g |-> 0]
Alt(alts)       == [t |-> "alt",   s |-> "", alts |-> alts, cs |-> {}, min |-> 0, max |-> 0, g |-> 0]
AltOrEnd(alts)  == [t |-> "altend", s |-> "", alts |-> alts, cs |-> {}, min |-> 0, max |-> 0, g |-> 0]
Open(g)         == [t |-> "open",  s |-> "", alts |-> <<>>, cs |-> {}, min |-> 0, max |-> 0, g |-> g]
Close(g)        == [t |-> "close", s |-> "", alts |-> <<>>, cs |-> {}, min |-> 0, max |-> 0, g |-> g]

NoMatch == [ok |-> FALSE, from |-> 0, to |-> 0, caps |-> <<>>]

\* the positions item it can reach from position p of s
Ends(it, s, p) ==
  CASE it.t = "lit"    -> IF StartsAt(s, p, it.s) THEN {p + Len(it.s)} ELSE {}
    [] it.t = "cls"    -> {p + n : n \in it.min..ClassRun(s, p, it.cs, it.max)}
    [] it.t = "lazy"   -> p..(Len(s) + 1)
    [] it.t = "alt"    -> {p + Len(it.alts[i]) : i \in {j \in 1..Len(it.alts) : StartsAt(s, p, it.alts[j])}}
    [] it.t = "altend" -> {p + Len(it.alts[i]) : i \in {j \in 1..Len(it.alts) : StartsAt(s, p, it.alts[j])}}
                          \cup (IF p = Len(s) + 1 THEN {p} ELSE {})
    [] OTHER           -> {p}

\* of the positions in good that item it can reach from p, the one the
\* search tries first
Preferred(it, s, p, good) ==
  CASE it.t = "cls"  -> Max(Ends(it, s, p) \cap good)
    [] it.t = "lazy" -> Min(Ends(it, s, p) \cap good)
    [] it.t \in {"alt", "altend"} ->
         LET first == {i \in 1..Len(it.alts) :
                         StartsAt(s, p, it.alts[i]) /\ p + Len(it.alts[i]) \in good}
         IN IF first # {} THEN p + Len(it.alts[Min(first)]) ELSE p
    [] OTHER -> CHOOSE q \in Ends(it, s, p) \cap good : TRUE

\* <<R_i+1, ..., R_j+1>>: the positions the search can be at after items
\* i..j when it is at one of cur before item i (halving keeps the recursion
\* shallow)
RECURSIVE ReachRange(_, _, _, _, _)
ReachRange(re, s, i, j, cur) ==
  IF i = j THEN <<UNION {Ends(re[i], s, p) : p \in cur}>>
  ELSE Val({left \o ReachRange(re, s, (i + j) \div 2 + 1, j, left[Len(left)]) :
            left \in {ReachRange(re, s, i, (i + j) \div 2, cur)}})

\* <<G_i, ..., G_j>>: the positions of R_k from which items k.. match, when
\* after is G_j+1
RECURSIVE GoodRange(_, _, _, _, _, _)
GoodRange(re, s, reach, i, j, after) ==
  IF i = j THEN <<{p \in reach[i] : Ends(re[i], s, p) \cap after # {}}>>
  ELSE Val({GoodRange(re, s, reach, i, (i + j) \div 2, right[1]) \o right :
            right \in {GoodRange(re, s, reach, (i + j) \div 2 + 1, j, after)}})

\* <<p_i+1, ..., p_j+1>>: where the search is after each of items i..j when
\* it is at p before item i
RECURSIVE WalkRange(_, _, _, _, _, _)
WalkRange(re, s, good, i, j, p) ==
  IF i = j THEN <<Preferred(re[i], s, p, good[i + 1])>>
  ELSE Val({left \o WalkRange(re, s, good, (i + j) \div 2 + 1, j, left[Len(left)]) :
            left \in {WalkRange(re, s, good, i, (i + j) \div 2, p)}})

\* <<p_1, ..., p_n+1>>, the positions of the match that starts leftmost;
\* <<>> if there is none
Search(re, s) ==
  Val({IF reach[Len(reach)] = {} THEN <<>>
       ELSE Val({<<Min(good[1])>> \o WalkRange(re, s, good, 1, Len(re), Min(good[1])) :
                 good \in {GoodRange(re, s, reach, 1, Len(re), reach[Len(reach)])
                           \o <<reach[Len(reach)]>>}}) :
       reach \in {<<1..(Len(s) + 1)>> \o ReachRange(re, s, 1, Len(re), 1..(Len(s) + 1))}})

\* the index of "(" and ")" of capture group g in the pattern
OpenAt(re, g)  == CHOOSE k \in 1..Len(re) : re[k].t = "open" /\ re[k].g = g
CloseAt(re, g) == CHOOSE k \in 1..Len(re) : re[k].t = "close" /\ re[k].g = g

\* text.match(re) for a pattern with the i flag: the result of the search
\* with the captured substrings (matches[1], matches[2], ...)
Match(text, re, ngroups) ==
  Val({IF walk = <<>> THEN NoMatch
       ELSE [ok |-> TRUE, from |-> walk[1], to |-> walk[Len(walk)],
             caps |-> [g \in 1..ngroups |->
                         SubSeq(text, walk[OpenAt(re, g)], walk[CloseAt(re, g)] - 1)]] :
       walk \in {Val({Search(re, lower) : lower \in {toLowerCase(text)}})}})

\* re.test(text)
Test(text, re) == Match(text, re, 0).ok

(***************************************************************************)
(* utils/smsParser.ts                                                      *)
(***************************************************************************)
UndefinedText == "<undefined>"

DigitComma == Digits \cup {","}
DigitDotComma == Digits \cup {".", ","}

\* ([\d,]+\.?\d*) as capture group g
AmountGroup(g) == <<Open(g), Cls(DigitComma, 1, Unbounded), Cls({"."}, 0, 1),
                    Cls(Digits, 0, Unbounded), Close(g)>>
\* ([\d.,]+) as capture group g
LooseAmountGroup(g) == <<Open(g), Cls(DigitDotComma, 1, Unbounded), Close(g)>>
\* (\d{2}-\d{2}-\d{2}) as capture group g
DashDateGroup(g) == <<Open(g), Cls(Digits, 2, 2), Lit("-"), Cls(Digits, 2, 2), Lit("-"),
                      Cls(Digits, 2, 2), Close(g)>>
\* (\d{2}[A-Za-z]{3}\d{2}) as capture group g
TextDateGroup(g) == <<Open(g), Cls(Digits, 2, 2), Cls(LowerLetters, 3, 3), Cls(Digits, 2, 2), Close(g)>>
\* (.*?) as capture group g
LazyGroup(g) == <<Open(g), Lazy, Close(g)>>
\* (\d+) as capture group g
DigitsGroup(g) == <<Open(g), Cls(Digits, 1, Unbounded), Close(g)>>
\* \d+
SomeDigits == <<Cls(Digits, 1, Unbounded)>>

\* BANK_PATTERNS[i].regex with the number of its capture groups, in list order
BANK_PATTERNS == <<
  \* HDFC Bank debit pattern
  [regex |-> <<Lit("hdfc bank: inr ")>> \o AmountGroup(1) \o <<Lit(" debited from a/c xx")>>
             \o SomeDigits \o <<Lit(" on ")>> \o DashDateGroup(2) \o <<Lit(" ")>> \o LazyGroup(3)
             \o <<Lit(". avl bal: inr ")>> \o AmountGroup(4),
   groups |-> 4],
  \* HDFC Bank credit pattern
  [regex |-> <<Lit("hdfc bank: inr ")>> \o AmountGroup(1) \o <<Lit(" credited to a/c xx")>>
             \o SomeDigits \o <<Lit(" on ")>> \o DashDateGroup(2) \o <<Lit(" ")>> \o LazyGroup(3)
             \o <<Lit(". avl bal: inr ")>> \o AmountGroup(4),
   groups |-> 4],
  \* SBI debit pattern
  [regex |-> <<Lit("inr ")>> \o AmountGroup(1) \o <<Lit(" debited from a/c no xx")>>
             \o SomeDigits \o <<Lit(" on ")>> \o DashDateGroup(2) \o <<Lit(" ")>> \o LazyGroup(3)
             \o <<Lit(". bal: inr ")>> \o AmountGroup(4),
   groups |-> 4],
  \* SBI credit pattern
  [regex |-> <<Lit("inr ")>> \o AmountGroup(1) \o <<Lit(" credited to a/c no xx")>>
             \o SomeDigits \o <<Lit(" on ")>> \o DashDateGroup(2) \o <<Lit(" ")>> \o LazyGroup(3)
             \o <<Lit(". bal: inr ")>> \o AmountGroup(4),
   groups |-> 4],
  \* SBI UPI debit pattern
  [regex |-> <<Lit("dear upi user a/c x")>> \o DigitsGroup(1) \o <<Lit(" debited by ")>>
             \o LooseAmountGroup(2) \o <<Lit(" on date ")>> \o TextDateGroup(3)
             \o <<Lit(" trf to ")>> \o LazyGroup(4) \o <<Lit(" refno ")>> \o DigitsGroup(5),
   groups |-> 5],
  \* SBI YONO account transfer pattern
  [regex |-> <<Lit("tranx of rs.")>> \o LooseAmountGroup(1) \o <<Lit(" done on ")>>
             \o TextDateGroup(2) \o <<Lit(" to a/c no xx")>> \o DigitsGroup(3) \o <<Lit(" of ")>>
             \o LazyGroup(4) \o <<Lit(" is complete. from sbi a/c xx")>> \o DigitsGroup(5),
   groups |-> 5],
  \* ICICI debit card pattern
  [regex |-> <<Lit("inr ")>> \o AmountGroup(1) \o <<Lit(" spent on icici card xx")>>
             \o SomeDigits \o <<Lit(" on ")>> \o DashDateGroup(2) \o <<Lit(" at ")>> \o LazyGroup(3)
             \o <<Lit(".")>>,
   groups |-> 3],
  \* Axis Bank debit pattern
  [regex |-> <<Lit("inr ")>> \o AmountGroup(1) \o <<Lit(" debited on ")>> \o DashDateGroup(2)
             \o <<Lit(" from a/c xx")>> \o SomeDigits \o <<Lit(" ")>> \o LazyGroup(3)
             \o <<Lit(". avl bal inr ")>> \o AmountGroup(4),
   groups |-> 4],
  \* Axis Bank credit pattern
  [regex |-> <<Lit("inr ")>> \o AmountGroup(1) \o <<Lit(" credited on ")>> \o DashDateGroup(2)
             \o <<Lit(" to a/c xx")>> \o SomeDigits \o <<Lit(" ")>> \o LazyGroup(3)
             \o <<Lit(". avl bal inr ")>> \o AmountGroup(4),
   groups |-> 4],
  \* PayTM UPI pattern
  [regex |-> <<Lit("inr ")>> \o AmountGroup(1) \o <<Lit(" paid to ")>> \o LazyGroup(2)
             \o <<Lit(" successfully on ")>> \o DashDateGroup(3),
   groups |-> 3],
  \* Google Pay UPI pattern
  [regex |-> <<Lit("inr ")>> \o AmountGroup(1) \o <<Lit(" sent to ")>> \o LazyGroup(2)
             \o <<Lit(" via upi on ")>> \o DashDateGroup(3),
   groups |-> 3]
>>

\* formatDateFromText: "18Feb25" -> "18-02-25"
monthMap(month) ==
  CASE month = "jan" -> "01" [] month = "feb" -> "02" [] month = "mar" -> "03"
    [] month = "apr" -> "04" [] month = "may" -> "05" [] month = "jun" -> "06"
    [] month = "jul" -> "07" [] month = "aug" -> "08" [] month = "sep" -> "09"
    [] month = "oct" -> "10" [] month = "nov" -> "11" [] month = "dec" -> "12"
    [] OTHER -> "01"

formatDateFromText(dateStr) ==
  LET day   == SubSeq(dateStr, 1, 2)
      month == toLowerCase(SubSeq(dateStr, 3, 5))
      year  == SubSeq(dateStr, 6, Len(dateStr))
  IN day \o "-" \o monthMap(month) \o "-" \o year

\* what a pattern's extract builds from its captures; originalSMS is stamped
\* by the caller, the category by the ingestion path
Transaction(id, amount, date, description, type, balance, bank) ==
  [id |-> id, amount |-> amount, date |-> date, description |-> description,
   type |-> type, balance |-> balance, bank |-> bank,
   originalSMS |-> UndefinedText, category |-> UndefinedText]

\* BANK_PATTERNS[i].extract(matches), with v4() giving id
extract(i, matches, id) ==
  LET amt(g) == parseFloat(StripCommas(matches[g]))
  IN CASE i = 1  -> Transaction(id, amt(1), matches[2], matches[3], "debit", amt(4), "HDFC")
       [] i = 2  -> Transaction(id, amt(1), matches[2], matches[3], "credit", amt(4), "HDFC")
       [] i = 3  -> Transaction(id, amt(1), matches[2], matches[3], "debit", amt(4), "SBI")
       [] i = 4  -> Transaction(id, amt(1), matches[2], matches[3], "credit", amt(4), "SBI")
       [] i = 5  -> Transaction(id, amt(2), formatDateFromText(matches[3]),
                                "UPI Payment to " \o matches[4], "debit", Undefined, "SBI")
       [] i = 6  -> Transaction(id, amt(1), formatDateFromText(matches[2]),
                                "Transfer to " \o matches[4] \o " account XX" \o matches[3],
                                "debit", Undefined, "SBI")
       [] i = 7  -> Transaction(id, amt(1), matches[2], matches[3], "debit", Undefined, "ICICI")
       [] i = 8  -> Transaction(id, amt(1), matches[2], matches[3], "debit", amt(4), "Axis")
       [] i = 9  -> Transaction(id, amt(1), matches[2], matches[3], "credit", amt(4), "Axis")
       [] i = 10 -> Transaction(id, amt(1), matches[3], "Paid to " \o matches[2],
                                "debit", Undefined, "PayTM")
       [] OTHER  -> Transaction(id, amt(1), matches[3], "Sent to " \o matches[2],
                                "debit", Undefined, "GooglePay")

\* a Transaction | null
Null == <<>>
Some(x) == <<x>>

\* the regular expressions of extractGenericTransaction
amountRegex == <<Open(1), Alt(<<"inr", "rs.", "rs", "₹">>), Close(1), Cls(WhiteSpace, 0, 1)>>
               \o AmountGroup(2)
debitedByRegex == <<Lit("debited by ")>> \o LooseAmountGroup(1)
dateTextRegex == <<Lit("on date ")>> \o TextDateGroup(1)
dateRegex == <<Open(1), Cls(Digits, 2, 2), Close(1), Cls({"/", "-"}, 1, 1),
               Open(2), Cls(Digits, 2, 2), Close(2), Cls({"/", "-"}, 1, 1),
               Open(3), Cls(Digits, 2, 4), Close(3)>>
trfToRegex == <<Lit("trf to ")>> \o LazyGroup(1) \o <<AltOrEnd(<<"refno">>)>>
isDebitRegex == <<Alt(<<"debited", "sent", "paid", "spent", "withdraw", "purchase">>)>>
isCreditRegex == <<Alt(<<"credited", "received", "refund", "cashback">>)>>

\* str.slice(-2)
Slice2(s) == IF Len(s) <= 2 THEN s ELSE SubSeq(s, Len(s) - 1, Len(s))

\* the date of a generic record: the numeric date of the text, or today
\* (DateNow: today whatever the text holds)
DateNow(today, dateMatch) == today
genericDate(today, dateMatch) ==
  IF dateMatch.ok
  THEN dateMatch.caps[1] \o "-" \o dateMatch.caps[2] \o "-" \o Slice2(dateMatch.caps[3])
  ELSE today

\* isDebit ? 'debit' : isCredit ? 'credit' : 'debit' (CreditFirst: the credit
\* keywords looked at first)
CreditFirst(isDebit, isCredit) == IF isCredit THEN "credit" ELSE "debit"
genericType(isDebit, isCredit) ==
  IF isDebit THEN "debit" ELSE IF isCredit THEN "credit" ELSE "debit"

\* extractGenericTransaction; today is new Date().toLocaleDateString('en-IN')
genericTransaction(smsText, id, today, amountMatch, debitedMatch, dateTextMatch, dateMatch, merchantMatch) ==
  LET isDebit  == Test(smsText, isDebitRegex)
      isCredit == Test(smsText, isCreditRegex)
  IN IF ~amountMatch.ok /\ debitedMatch.ok
     THEN Some([Transaction(id,
                            parseFloat(StripCommas(debitedMatch.caps[1])),
                            IF dateTextMatch.ok THEN formatDateFromText(dateTextMatch.caps[1])
                            ELSE genericDate(today, dateMatch),
                            IF merchantMatch.ok THEN "Payment to " \o Trim(merchantMatch.caps[1])
                            ELSE "Unknown Merchant",
                            "debit", Undefined,
                            IF Includes(smsText, "SBI") THEN "SBI" ELSE "Unknown")
                EXCEPT !.originalSMS = smsText])
     ELSE IF ~amountMatch.ok /\ ~Test(smsText, <<Lit("debited by")>>) THEN Null
     ELSE Some([Transaction(id,
                            IF amountMatch.ok THEN parseFloat(StripCommas(amountMatch.caps[2]))
                            ELSE Number(0),
                            genericDate(today, dateMatch),
                            Substring0(smsText, 50) \o "...",
                            genericType(isDebit, isCredit),
                            Undefined, "Unknown")
                EXCEPT !.originalSMS = smsText])

extractGenericTransaction(smsText, id, today) ==
  Val({genericTransaction(smsText, id, today, m[1], m[2], m[3], m[4], m[5]) :
       m \in {<<Match(smsText, amountRegex, 2), Match(smsText, debitedByRegex, 1),
                Match(smsText, dateTextRegex, 1), Match(smsText, dateRegex, 3),
                Match(smsText, trfToRegex, 1)>>}})

\* the BANK_PATTERNS entries whose regex matches cleanedText
MatchingPatterns(cleanedText) ==
  {i \in DOMAIN BANK_PATTERNS :
     Match(cleanedText, BANK_PATTERNS[i].regex, BANK_PATTERNS[i].groups).ok}

\* the first BANK_PATTERNS entry whose regex matches, with its captures;
\* Null if none (LastPattern: the last one)
LastPattern(cleanedText) ==
  Val({IF \A i \in DOMAIN r : ~r[i].ok THEN Null
       ELSE Val({Some([i |-> i, matches |-> r[i].caps]) :
                 i \in {Max({j \in DOMAIN r : r[j].ok})}}) :
       r \in {[i \in DOMAIN BANK_PATTERNS |->
                 Match(cleanedText, BANK_PATTERNS[i].regex, BANK_PATTERNS[i].groups)]}})
FirstPattern(cleanedText) ==
  Val({IF \A i \in DOMAIN r : ~r[i].ok THEN Null
       ELSE Val({Some([i |-> i, matches |-> r[i].caps]) :
                 i \in {Min({j \in DOMAIN r : r[j].ok})}}) :
       r \in {[i \in DOMAIN BANK_PATTERNS |->
                 Match(cleanedText, BANK_PATTERNS[i].regex, BANK_PATTERNS[i].groups)]}})

\* parseTransactionSMS on the text with its white space collapsed and trimmed
parseCleanedText(cleanedText, id, today) ==
  Val({IF found # Null
       THEN Some([extract(found[1].i, found[1].matches, id) EXCEPT !.originalSMS = cleanedText])
       ELSE extractGenericTransaction(cleanedText, id, today) :
       found \in {FirstPattern(cleanedText)}})

\* parseTransactionSMS
parseTransactionSMS(smsText, id, today) ==
  IF smsText = "" THEN Null
  ELSE Val({parseCleanedText(cleanedText, id, today) :
            cleanedText \in {Trim(CollapseWhiteSpace(smsText))}})

\* isTransactionSMS
transactionKeywords == <<"debited", "credited", "transaction", "spent", "payment",
                         "account", "a/c", "bank", "bal", "transfer", "upi",
                         "rupees", "rs.", "inr", "₹">>

isTransactionSMS(smsText) ==
  /\ smsText # ""
  /\ \E lowerText \in {toLowerCase(smsText)} :
       \E k \in DOMAIN transactionKeywords : Includes(lowerText, transactionKeywords[k])

(***************************************************************************)
(* utils/categoryEngine.ts                                                 *)
(***************************************************************************)
knownMerchants == <<
  <<"amazon", "Shopping">>, <<"flipkart", "Shopping">>, <<"swiggy", "Food & Dining">>,
  <<"zomato", "Food & Dining">>, <<"uber", "Transport">>, <<"ola", "Transport">>,
  <<"netflix", "Entertainment">>, <<"hotstar", "Entertainment">>,
  <<"airtel", "Bills & Utilities">>, <<"jio", "Bills & Utilities">>, <<"apollo", "Health">>,
  <<"medplus", "Health">>, <<"bookmyshow", "Entertainment">>, <<"makemytrip", "Travel">>,
  <<"irctc", "Transport">> >>

categories == <<
  [name |-> "Groceries", keywords |-> {"supermarket", "grocery", "market", "kirana", "bigbasket",
      "grofers", "fresh", "vegetables", "fruits", "dmart", "reliance fresh"}],
  [name |-> "Food & Dining", keywords |-> {"restaurant", "cafe", "swiggy", "zomato", "food", "pizza",
      "hotel", "eat", "dining", "lunch", "dinner", "breakfast", "burger", "coffee", "tea", "bakery",
      "mcdonalds", "kfc", "dominos"}],
  [name |-> "Transport", keywords |-> {"uber", "ola", "taxi", "auto", "metro", "train", "petrol",
      "fuel", "parking", "bus", "fare", "ticket", "transport", "rapido", "railway", "irctc",
      "flight", "redbus"}],
  [name |-> "Shopping", keywords |-> {"amazon", "flipkart", "myntra", "mall", "retail", "shop",
      "purchase", "buy", "store", "market", "outlet", "fashion", "clothing", "shoes", "apparel",
      "electronics", "nykaa", "ajio"}],
  [name |-> "Entertainment", keywords |-> {"movie", "netflix", "prime", "hotstar", "tickets",
      "bookmyshow", "cinema", "theater", "show", "concert", "game", "sports", "event",
      "subscription", "pvr", "inox"}],
  [name |-> "Bills & Utilities", keywords |-> {"electricity", "water", "gas", "mobile", "phone",
      "internet", "broadband", "bill", "recharge", "dth", "utility", "wifi", "airtel", "jio",
      "vodafone", "idea", "bsnl", "tata", "rental", "maintenance"}],
  [name |-> "Health", keywords |-> {"hospital", "clinic", "doctor", "medicine", "pharmacy",
      "medical", "health", "healthcare", "insurance", "consultation", "apollo", "medplus",
      "wellness", "netmeds", "pharmeasy", "lab", "test", "diagnosis"}],
  [name |-> "Education", keywords |-> {"school", "college", "course", "class", "tuition", "books",
      "education", "learning", "training", "fee", "university", "institute", "academy",
      "online course", "udemy", "coursera"}],
  [name |-> "Personal Care", keywords |-> {"salon", "spa", "haircut", "parlour", "beauty",
      "cosmetics", "grooming", "makeup", "skincare", "barber", "massage", "facial", "manicure",
      "pedicure"}],
  [name |-> "Home", keywords |-> {"rent", "maintenance", "furniture", "appliance", "decor",
      "repair", "housing", "property", "interior", "renovation", "plumbing", "electrical",
      "carpet", "curtain"}],
  [name |-> "Travel", keywords |-> {"flight", "hotel", "booking", "trip", "vacation", "holiday",
      "travel", "tour", "resort", "makemytrip", "goibibo", "oyo", "airbnb", "cleartrip", "yatra",
      "visa", "passport", "cruise"}],
  [name |-> "Investment", keywords |-> {"mutual", "fund", "stock", "investment", "deposit", "gold",
      "fixed", "recurring", "shares", "bonds", "dividend", "interest", "zerodha", "groww",
      "upstox", "ipo"}],
  [name |-> "Others", keywords |-> {}] >>

\* findMerchantCategory: the first known merchant named in the description
findMerchantCategory(description) ==
  Val({IF hits = {} THEN UndefinedText ELSE knownMerchants[Min(hits)][2] :
       hits \in {{i \in DOMAIN knownMerchants : Includes(lower, knownMerchants[i][1])} :
                 lower \in {toLowerCase(description)}}})

\* categorizeTransaction: merchant table, then keyword table, then the
\* prediction of the text-classification call when it is configured, answers
\* and is confident (confidence in tenths, > 0.7), else 'Others'
categorizeTransaction(description, prediction) ==
  IF description = "" THEN "Others"
  ELSE Val({Val({IF merchant # UndefinedText THEN merchant
                 ELSE Val({IF hits # {} THEN categories[Min(hits)].name
                           ELSE IF prediction.available /\ prediction.confidence > 7
                                THEN prediction.category
                                ELSE "Others" :
                           hits \in {{i \in DOMAIN categories :
                                        \E kw \in categories[i].keywords : Includes(desc, kw)}}}) :
                 merchant \in {findMerchantCategory(desc)}}) :
            desc \in {toLowerCase(description)}})

(***************************************************************************)
(* services/smsService.ts: helpers                                         *)
(***************************************************************************)
MAX_CACHE_SIZE == 100

FINANCIAL_SENDERS == <<"HDFCBK", "SBIINB", "ICICIB", "AXISBK", "KOTAK", "YESBNK", "BOIIND",
                       "PNBSMS", "CANBNK", "CENTBK", "INDBNK", "UNIONB", "PAYTM", "PYTM",
                       "AMAZONPAY", "PHONPE", "GPAY", "UPIBNK">>

\* isFinancialSender
isFinancialSender(address) ==
  LET senderUpperCase == toUpperCase(address)
  IN \/ \E i \in DOMAIN FINANCIAL_SENDERS : Includes(senderUpperCase, FINANCIAL_SENDERS[i])
     \/ Includes(senderUpperCase, "BANK")
     \/ Includes(senderUpperCase, "CARD")
     \/ Includes(senderUpperCase, "PAY")
     \/ Includes(senderUpperCase, "UPI")
     \/ Includes(senderUpperCase, "ALERT")
     \* /[A-Z]{2}-[A-Z]{5,6}/ on the upper-cased sender
     \/ Test(senderUpperCase, <<Cls(LowerLetters, 2, 2), Lit("-"), Cls(LowerLetters, 5, 6)>>)

\* extractBankFromSender
extractBankFromSender(senderId) ==
  LET upperSender == toUpperCase(senderId)
      has(x) == Includes(upperSender, x)
  IN IF has("HDFCBK") \/ has("HDFC") THEN "HDFC"
     ELSE IF has("SBIINB") \/ has("SBI") THEN "SBI"
     ELSE IF has("ICICIB") \/ has("ICICI") THEN "ICICI"
     ELSE IF has("AXISBK") \/ has("AXIS") THEN "Axis"
     ELSE IF has("KOTAK") THEN "Kotak"
     ELSE IF has("YESBNK") \/ has("YES") THEN "Yes Bank"
     ELSE IF has("PAYTM") \/ has("PYTM") THEN "Paytm"
     ELSE IF has("AMAZONPAY") THEN "Amazon Pay"
     ELSE IF has("PHONPE") THEN "PhonePe"
     ELSE IF has("GPAY") THEN "Google Pay"
     ELSE UndefinedText

\* the recently-processed Set, in insertion order
SeqHas(q, x) == \E i \in DOMAIN q : q[i] = x

\* addToProcessedCache: the cache after adding smsId (NoCache: a cache that
\* keeps no id; KeepsOnlyNewest: one that keeps the last id only;
\* EvictsWhenOver: one that evicts when it holds more than MAX_CACHE_SIZE;
\* EvictsNewest: one that evicts the newest quarter)
NoCache(cache, smsId) == cache
KeepsOnlyNewest(cache, smsId) == <<smsId>>
EvictsNewest(cache, smsId) ==
  LET kept == IF Len(cache) >= MAX_CACHE_SIZE
              THEN SubSeq(cache, 1, Len(cache) - MAX_CACHE_SIZE \div 4)
              ELSE cache
  IN IF \E i \in DOMAIN kept : kept[i] = smsId THEN kept ELSE Append(kept, smsId)
EvictsWhenOver(cache, smsId) ==
  LET kept == IF Len(cache) > MAX_CACHE_SIZE
              THEN SubSeq(cache, MAX_CACHE_SIZE \div 4 + 1, Len(cache))
              ELSE cache
  IN IF \E i \in DOMAIN kept : kept[i] = smsId THEN kept ELSE Append(kept, smsId)
addToProcessedCache(cache, smsId) ==
  LET kept == IF Len(cache) >= MAX_CACHE_SIZE
              THEN SubSeq(cache, MAX_CACHE_SIZE \div 4 + 1, Len(cache))
              ELSE cache
  IN IF SeqHas(kept, smsId) THEN kept ELSE Append(kept, smsId)

(***************************************************************************)
(* Bounds and inputs                                                       *)
(***************************************************************************)
MaxSMS == 2          \* messages that arrive in the inbox
MaxListeners == 1    \* calls of startSMSListener that start a timer
MaxAnalyses == 2     \* runs of analyzeSMS that produce a record
MaxManualSaves == 2  \* presses of "Save Transaction"
MaxSeeds == 1        \* runs of addSampleTransactions that write the samples

\* readSMSMessages(20, ...): the latest 20 messages
FETCH_COUNT == 20

HdfcDebitSMS == "HDFC Bank: INR 1,499.00 debited from a/c XX1234 on 12-04-23 AMAZON. Avl bal: INR 24,599.35"
OtpSMS == "Your OTP is 493021. Do not share it with anyone."
LowBalanceSMS == "Your account balance is low"
\* the debit message as a sender may space it: two blanks and a trailing one
SpacedDebitSMS == "HDFC Bank:  INR 1,499.00 debited from a/c XX1234 on 12-04-23 AMAZON. Avl bal: INR 24,599.35 "

\* the debit message with a comma where the amount stands
CommaAmountSMS == "HDFC Bank: INR , debited from a/c XX1234 on 12-04-23 AMAZON. Avl bal: INR 24,599.35"

\* sender addresses and bodies of the messages that arrive
Senders == {"VM-HDFCBK", "+919812345678"}
Bodies == {HdfcDebitSMS, OtpSMS, LowBalanceSMS}
\* the bodies the tables below are computed for
TableBodies == Bodies \cup {SpacedDebitSMS, CommaAmountSMS}

\* new Date().toLocaleDateString('en-IN') at the time of a call
Dates == {"5/11/2026"}

\* what the confidence check can answer: it throws, or it returns
\* {isTransaction, confidence}, the confidence in tenths
VerifyOutcomes ==
  {[threw |-> TRUE,  isTransaction |-> FALSE, confidence |-> 0],
   [threw |-> FALSE, isTransaction |-> TRUE,  confidence |-> 9],
   [threw |-> FALSE, isTransaction |-> FALSE, confidence |-> 8],
   [threw |-> FALSE, isTransaction |-> FALSE, confidence |-> 9]}

\* what the category prediction call can answer
Predictions ==
  {[available |-> FALSE, category |-> "Others", confidence |-> 0],
   [available |-> TRUE,  category |-> "Food & Dining", confidence |-> 9]}

\* what the pure functions of smsParser.ts and smsService.ts answer on the
\* bodies and senders above, evaluated once
parsedTransactions ==
  [b \in TableBodies |-> [today \in Dates |-> parseTransactionSMS(b, 0, today)]]
transactionBodies == {b \in TableBodies : isTransactionSMS(b)}
financialSenders == {a \in Senders : isFinancialSender(a)}
senderBanks == [a \in Senders |-> extractBankFromSender(a)]

\* parseTransactionSMS(sms.body) when v4() returns id
parseSMSBody(body, id, today) ==
  IF parsedTransactions[body][today] = Null THEN Null
  ELSE Some([parsedTransactions[body][today][1] EXCEPT !.id = id])

VARIABLES
  platformOS,            \* Platform.OS
  smsModule,             \* SmsAndroid is defined
  inbox,                 \* the device inbox, newest message first
  recentlyProcessedSMS,  \* the module-level cache of smsService.ts
  listeners,             \* the closures created by startSMSListener
  cycles,                \* the polling callbacks in flight
  store,                 \* AsyncStorage[rupeeradar_transactions], parsed
  nextId,                \* the next identifier v4() returns
  provider,              \* the state of SMSProvider
  log,                   \* history: what was persisted, notified, checked
  screen,                \* the state of SMSInputScreen and of the expenses screen
  smsInput, parseResult  \* the extractor applied to one text

vars == <<platformOS, smsModule, inbox, recentlyProcessedSMS, listeners, cycles, store,
          nextId, provider, log, screen, smsInput, parseResult>>

NoCallback == 0
NoopCallback == -1

InitProvider ==
  [mounted |-> "no", isAvailable |-> FALSE, hasPermissions |-> "null", isListening |-> FALSE,
   stopListenerCallback |-> NoCallback, cleanupCallback |-> NoCallback,
   pendingCheck |-> FALSE, pendingRequest |-> FALSE,
   lastTransaction |-> Null, recentTransactions |-> <<>>]

InitApp ==
  /\ platformOS \in {"android", "ios"}
  /\ smsModule \in BOOLEAN
  /\ inbox = <<>>
  /\ recentlyProcessedSMS = <<>>
  /\ listeners = <<>>
  /\ cycles = <<>>
  /\ store = <<>>
  /\ nextId = 1
  /\ provider = InitProvider
  /\ log = [persisted |-> <<>>, notified |-> <<>>, failed |-> {}, checks |-> {},
           dropped |-> FALSE, starts |-> FALSE]

\* SMSInputScreen: the messages it shows in error
NoError == ""
EnterTextError == "Please enter SMS text to analyze"
NotIdentifiedError == "Could not identify transaction details from the SMS. Please check the format."

InitScreen ==
  [smsText |-> "", transaction |-> Null, isLoading |-> FALSE, isSaving |-> FALSE,
   error |-> NoError,
   analysis |-> Null,     \* analyzeSMS awaiting categorizeTransaction
   saves |-> <<>>,        \* saveTransaction calls in flight
   seeding |-> Null,      \* addSampleTransactions awaiting setItem: its first v4()
   analyses |-> 0, presses |-> 0, seeds |-> 0]

Init ==
  /\ InitApp
  /\ screen = InitScreen
  /\ smsInput = ""
  /\ parseResult = Null

(***************************************************************************)
(* The device: messages arrive in the inbox, newest first                  *)
(***************************************************************************)
NewSMS(address, body) ==
  /\ Len(inbox) < MaxSMS
  /\ inbox' = <<[_id |-> Len(inbox) + 1, address |-> address, body |-> body]>> \o inbox
  /\ UNCHANGED <<platformOS, smsModule, recentlyProcessedSMS, listeners, cycles, store,
                 nextId, provider, log, screen, smsInput, parseResult>>

(***************************************************************************)
(* services/smsService.ts: startSMSListener and the polling callback       *)
(***************************************************************************)
\* checkSMSModuleAvailability().available (PlatformOnly: the platform alone)
PlatformOnly == platformOS = "android"
checkSMSModuleAvailability == platformOS = "android" /\ smsModule

\* startSMSListener(onNewTransaction, onError) with ls the closures that
\* exist: the stop function it returns and the closures afterwards
startSMSListener(ls) ==
  IF platformOS # "android"
  THEN [stop |-> NoopCallback, listeners |-> ls]
  ELSE [stop |-> Len(ls) + 1,
        listeners |-> Append(ls, [timer |-> TRUE, stopped |-> FALSE, inFlightAtStop |-> FALSE,
                                  isProcessing |-> FALSE, lastReadSmsId |-> 0,
                                  lastBatch |-> [cands |-> <<>>, passed |-> 0]])]

\* a call of the function startSMSListener returned: clearInterval(intervalId)
\* (stopped records that the function was called, inFlightAtStop whether a
\* polling callback was in flight at its first call)
Stopped(listener) ==
  [listener EXCEPT !.stopped = TRUE,
                   !.inFlightAtStop = IF listener.stopped THEN @ ELSE listener.isProcessing]
StopForgetsTimer(ls, cb) == IF cb \in DOMAIN ls THEN [ls EXCEPT ![cb] = Stopped(@)] ELSE ls
CallStop(ls, cb) ==
  IF cb \in DOMAIN ls THEN [ls EXCEPT ![cb] = [Stopped(@) EXCEPT !.timer = FALSE]] ELSE ls

Remove(q, k) == SubSeq(q, 1, k - 1) \o SubSeq(q, k + 1, Len(q))

\* the module state a polling callback reads and writes besides its closure
World == [cache |-> recentlyProcessedSMS, nextId |-> nextId, log |-> log]

\* the entry the history keeps of one decision of processSMSMessage about
\* the confidence check
CheckEntry(sms, called, outcome, extracted) ==
  [sms |-> sms._id, address |-> sms.address, called |-> called, threw |-> outcome.threw,
   isTransaction |-> outcome.isTransaction, confidence |-> outcome.confidence,
   extracted |-> extracted]

NoOutcome == [threw |-> FALSE, isTransaction |-> FALSE, confidence |-> 0]

\* processSMSMessage, lines 173-190: isConfirmedTransaction after the check
\* answered (or threw); FailsClosed is the check that must confirm
FailsClosed(outcome) == ~outcome.threw /\ outcome.isTransaction
isConfirmedTransaction(outcome) ==
  ~(~outcome.threw /\ ~outcome.isTransaction /\ outcome.confidence > 8)

\* The for loop of the polling callback from candidate i on, run up to the
\* next await that suspends it: processSMSMessage returns null at once for a
\* cached id and for a body that is not isTransactionSMS, awaits the
\* confidence check for a financial sender and else goes on to extract.
\* The result is the suspended callback (Null when the loop has ended) and
\* the module state.
RECURSIVE ProcessFrom(_, _, _, _), Extract(_, _, _, _)
ProcessFrom(c, i, w, today) ==
  IF i > Len(c.cands)
  THEN [cycle |-> Null, w |-> w, cands |-> c.cands, passed |-> Len(c.cands)]
  ELSE LET sms == c.cands[i] IN
       IF SeqHas(w.cache, sms._id) THEN ProcessFrom(c, i + 1, w, today)
       ELSE IF sms.body \notin transactionBodies THEN ProcessFrom(c, i + 1, w, today)
       ELSE IF sms.address \in financialSenders
            THEN [cycle |-> Some([c EXCEPT !.pc = "verify", !.i = i]), w |-> w,
                  cands |-> c.cands, passed |-> i]
            ELSE Extract(c, i, [w EXCEPT !.log.checks = @ \cup {CheckEntry(sms, FALSE, NoOutcome, TRUE)}],
                         today)

\* processSMSMessage, lines 192-203: parse, and on a record insert the id in
\* the cache and await the categorization; on no record return null
Extract(c, i, w, today) ==
  LET sms == c.cands[i]
      parsedTransaction == parseSMSBody(sms.body, w.nextId, today)
  IN IF parsedTransaction = Null THEN ProcessFrom(c, i + 1, w, today)
     ELSE [cycle |-> Some([c EXCEPT !.pc = "categorize", !.i = i, !.tx = parsedTransaction]),
           w |-> [w EXCEPT !.cache = addToProcessedCache(w.cache, sms._id), !.nextId = @ + 1],
           cands |-> c.cands, passed |-> i]

\* the polling callback k goes on as r says, with ls the closures; when its
\* loop has ended the finally block resets isProcessing
Continue(k, r, ls) ==
  /\ recentlyProcessedSMS' = r.w.cache
  /\ nextId' = r.w.nextId
  /\ log' = r.w.log
  /\ IF r.cycle = Null
     THEN /\ cycles' = Remove(cycles, k)
          /\ listeners' = [ls EXCEPT ![cycles[k].l].isProcessing = FALSE,
                                     ![cycles[k].l].lastBatch =
                                        [cands |-> r.cands, passed |-> r.passed]]
     ELSE /\ cycles' = [cycles EXCEPT ![k] = r.cycle[1]]
          /\ listeners' = ls

\* line 306, "if (isProcessing) return": the tick goes on to read the inbox
TickReadsAlways(listener) == TRUE
tickReads(listener) == ~listener.isProcessing

\* the setInterval callback of listener l fires
Tick(l) ==
  /\ l \in DOMAIN listeners
  /\ listeners[l].timer
  /\ IF ~tickReads(listeners[l])
     THEN /\ log' = [log EXCEPT !.dropped = TRUE]
          /\ UNCHANGED <<listeners, cycles>>
     ELSE IF ~smsModule
          \* SmsAndroid.list throws, readSMSMessages catches it and calls
          \* onError, which resets isProcessing
          THEN UNCHANGED <<listeners, cycles, log>>
          ELSE /\ listeners' = [listeners EXCEPT ![l].isProcessing = TRUE]
               /\ cycles' = Append(cycles, [l |-> l, pc |-> "list", cands |-> <<>>, i |-> 0,
                                            tx |-> Null, snap |-> <<>>])
               /\ UNCHANGED log
  /\ UNCHANGED <<platformOS, smsModule, inbox, recentlyProcessedSMS, store, nextId, provider,
                 screen, smsInput, parseResult>>

\* SmsAndroid.list calls the error callback
ListFails(k) ==
  /\ k \in DOMAIN cycles
  /\ cycles[k].pc = "list"
  /\ cycles' = Remove(cycles, k)
  /\ listeners' = [listeners EXCEPT ![cycles[k].l].isProcessing = FALSE]
  /\ UNCHANGED <<platformOS, smsModule, inbox, recentlyProcessedSMS, store, nextId, provider,
                 log, screen, smsInput, parseResult>>

\* lines 314-316: the batch is processed when it is not empty and its
\* newest message is not the one lastReadSmsId names (AnyBatchIsNew: when it
\* is not empty)
AnyBatchIsNew(lastReadSmsId, messages) == Len(messages) > 0
batchIsNew(lastReadSmsId, messages) ==
  Len(messages) > 0 /\ lastReadSmsId # messages[1]._id

\* line 317, before the filter and the loop: the listener remembers the
\* newest message of the batch (NotSeen: it does not)
NotSeen(listener, messages) == listener
seenBatch(listener, messages) == [listener EXCEPT !.lastReadSmsId = messages[1]._id]

\* SmsAndroid.list calls the success callback: lines 312-333 up to the first await
ListSucceeds(k, today) ==
  /\ k \in DOMAIN cycles
  /\ cycles[k].pc = "list"
  /\ LET c == cycles[k]
         messages == SubSeq(inbox, 1, IF Len(inbox) < FETCH_COUNT THEN Len(inbox) ELSE FETCH_COUNT)
     IN IF ~batchIsNew(listeners[c.l].lastReadSmsId, messages)
        THEN Continue(k, [cycle |-> Null, w |-> World, cands |-> <<>>, passed |-> 0], listeners)
        ELSE LET potentialTransactions ==
                   SelectSeq(messages, LAMBDA sms :
                     /\ ~SeqHas(recentlyProcessedSMS, sms._id)
                     /\ (sms.address \in financialSenders \/ sms.body \in transactionBodies))
             IN Continue(k, ProcessFrom([c EXCEPT !.cands = potentialTransactions], 1, World, today),
                         [listeners EXCEPT ![c.l] = seenBatch(@, messages)])
  /\ UNCHANGED <<platformOS, smsModule, inbox, store, provider, screen, smsInput, parseResult>>

\* the confidence check of processSMSMessage answers
VerifyReturns(k, outcome, today) ==
  /\ k \in DOMAIN cycles
  /\ cycles[k].pc = "verify"
  /\ LET c == cycles[k]
         sms == c.cands[c.i]
         proceed == isConfirmedTransaction(outcome)
         w == [World EXCEPT !.log.checks = @ \cup {CheckEntry(sms, TRUE, outcome, proceed)}]
     IN Continue(k, IF proceed THEN Extract(c, c.i, w, today) ELSE ProcessFrom(c, c.i + 1, w, today),
                 listeners)
  /\ UNCHANGED <<platformOS, smsModule, inbox, store, provider, screen, smsInput, parseResult>>

\* categorizeTransaction answers: processSMSMessage, lines 205-214, builds
\* transactionWithCategory and calls saveTransaction, which awaits getItem
CategorizeReturns(k, prediction) ==
  /\ k \in DOMAIN cycles
  /\ cycles[k].pc = "categorize"
  /\ LET c == cycles[k]
         sms == c.cands[c.i]
         parsedTransaction == c.tx[1]
         transactionWithCategory ==
           [parsedTransaction EXCEPT
              !.category = categorizeTransaction(parsedTransaction.description, prediction),
              !.originalSMS = sms.body,
              !.bank = IF @ \in {"", UndefinedText} THEN senderBanks[sms.address] ELSE @]
     IN cycles' = [cycles EXCEPT ![k].pc = "getItem", ![k].tx = Some(transactionWithCategory)]
  /\ UNCHANGED <<platformOS, smsModule, inbox, recentlyProcessedSMS, listeners, store, nextId,
                 provider, log, screen, smsInput, parseResult>>

(***************************************************************************)
(* services/storageService.ts                                              *)
(***************************************************************************)
\* JSON.parse(JSON.stringify(x)) of a number: NaN is written as null, an
\* undefined field is left out
JsonNull == [k |-> "null", m |-> 0, e |-> 0]
JsonNumber(x) == IF x = NaN THEN JsonNull ELSE x
JsonRoundTrip(transaction) ==
  [transaction EXCEPT !.amount = JsonNumber(@), !.balance = JsonNumber(@)]

\* saveTransaction: the collection setItem writes, from the collection
\* getItem returned
saveTransaction(existingData, transaction) == Append(existingData, JsonRoundTrip(transaction))

(***************************************************************************)
(* context/SMSContext.tsx: handleNewTransaction                            *)
(***************************************************************************)
KeepsOldest(p, transaction) ==
  IF p.mounted # "yes" THEN p
  ELSE [p EXCEPT !.lastTransaction = Some(transaction),
                 !.recentTransactions = SubSeq(@ \o <<transaction>>, 1,
                                               IF Len(@) + 1 < 5 THEN Len(@) + 1 ELSE 5)]
handleNewTransaction(p, transaction) ==
  IF p.mounted # "yes" THEN p
  ELSE [p EXCEPT !.lastTransaction = Some(transaction),
                 !.recentTransactions = SubSeq(<<transaction>> \o @, 1,
                                               IF Len(@) + 1 < 5 THEN Len(@) + 1 ELSE 5)]

\* processSMSMessage, lines 213-224: what it returns once saveTransaction
\* has resolved (saved) or thrown
ReturnsUnsaved(saved, transaction) == Some(transaction)
ReturnsNothing(saved, transaction) == Null
processSMSMessageReturns(saved, transaction) == IF saved THEN Some(transaction) ELSE Null

\* the polling callback, lines 326-331, after saveTransaction resolved
\* (saved) or threw: processSMSMessage returns, and the callback calls
\* onNewTransaction for a record, which may throw into the catch of the
\* callback and end the loop
AfterSave(k, saved, throws, today) ==
  LET c == cycles[k]
      transaction == c.tx[1]
      returned == processSMSMessageReturns(saved, transaction)
      entry == [l |-> c.l, sms |-> c.cands[c.i]._id, id |-> transaction.id]
      w1 == IF saved THEN [World EXCEPT !.log.persisted = Append(@, entry)]
            ELSE [World EXCEPT !.log.failed = @ \cup {entry}]
      w == IF returned = Null THEN w1
           ELSE [w1 EXCEPT !.log.notified = Append(@, returned[1].id)]
  IN /\ provider' = IF returned = Null THEN provider
                    ELSE handleNewTransaction(provider, returned[1])
     /\ IF returned # Null /\ throws
        THEN Continue(k, [cycle |-> Null, w |-> w, cands |-> c.cands, passed |-> c.i],
                      listeners)
        ELSE Continue(k, ProcessFrom(c, c.i + 1, w, today), listeners)

\* saveTransaction called by processSMSMessage: AsyncStorage.getItem answers
GetItemReturns(k, ok, today) ==
  /\ k \in DOMAIN cycles
  /\ cycles[k].pc = "getItem"
  /\ IF ok
     THEN /\ cycles' = [cycles EXCEPT ![k].pc = "setItem", ![k].snap = store]
          /\ UNCHANGED <<recentlyProcessedSMS, listeners, nextId, log, provider>>
     \* saveTransaction rethrows
     ELSE AfterSave(k, FALSE, FALSE, today)
  /\ UNCHANGED <<platformOS, smsModule, inbox, store, screen, smsInput, parseResult>>

\* saveTransaction called by processSMSMessage: AsyncStorage.setItem answers
SetItemReturns(k, ok, throws, today) ==
  /\ k \in DOMAIN cycles
  /\ cycles[k].pc = "setItem"
  /\ store' = IF ok THEN saveTransaction(cycles[k].snap, cycles[k].tx[1]) ELSE store
  /\ AfterSave(k, ok, throws, today)
  /\ UNCHANGED <<platformOS, smsModule, inbox, screen, smsInput, parseResult>>

(***************************************************************************)
(* context/SMSContext.tsx: SMSProvider                                     *)
(***************************************************************************)
\* startListening in a render with state p
startListening(p, ls) ==
  IF ~p.isAvailable \/ p.hasPermissions # "true" \/ p.isListening
  THEN [provider |-> p, listeners |-> ls]
  ELSE [provider |-> [p EXCEPT !.stopListenerCallback = startSMSListener(ls).stop,
                               !.isListening = TRUE],
        listeners |-> startSMSListener(ls).listeners]

\* the effect on [hasPermissions, isAvailable], run by the render with state
\* p: the clean-up of its previous run, then its body; the clean-up it
\* leaves behind holds the stopListenerCallback of this render
ListenEffect(p, ls) ==
  LET cleaned == CallStop(ls, p.cleanupCallback)
      captured == [p EXCEPT !.cleanupCallback = p.stopListenerCallback]
  IN IF p.hasPermissions = "true" /\ p.isAvailable /\ ~p.isListening
        /\ p.stopListenerCallback = NoCallback
     THEN startListening(captured, cleaned)
     ELSE [provider |-> captured, listeners |-> cleaned]

\* setHasPermissions(v): a new value re-renders and runs the effect
setHasPermissions(p, ls, v) ==
  IF p.mounted # "yes" \/ p.hasPermissions = v THEN [provider |-> p, listeners |-> ls]
  ELSE ListenEffect([p EXCEPT !.hasPermissions = v], ls)

ProviderStep(r) ==
  /\ provider' = r.provider
  /\ listeners' = r.listeners
  /\ UNCHANGED <<platformOS, smsModule, inbox, recentlyProcessedSMS, cycles, store, nextId,
                 log, screen, smsInput, parseResult>>

\* SMSProvider mounts: the first render runs the three effects, and
\* setIsAvailable re-renders and runs the effects that depend on isAvailable
Mount ==
  /\ provider.mounted = "no"
  /\ LET first == ListenEffect([provider EXCEPT !.mounted = "yes"], listeners)
         available == checkSMSModuleAvailability
     IN IF available
        THEN ProviderStep(ListenEffect([first.provider EXCEPT !.isAvailable = TRUE,
                                                              !.pendingCheck = TRUE],
                                       first.listeners))
        ELSE ProviderStep(first)

\* checkSMSPermissions of the mount effect answers
CheckPermissionsReturns(granted) ==
  /\ provider.pendingCheck
  /\ granted => platformOS = "android"
  /\ ProviderStep(setHasPermissions([provider EXCEPT !.pendingCheck = FALSE], listeners,
                                    IF granted THEN "true" ELSE "false"))

\* requestPermissions is called
RequestPermissions ==
  /\ provider.mounted = "yes"
  /\ ~provider.pendingRequest
  /\ ProviderStep([provider |-> [provider EXCEPT !.pendingRequest = provider.isAvailable],
                   listeners |-> listeners])

\* requestSMSPermissions answers granted or not
RequestPermissionsReturns(granted) ==
  /\ provider.pendingRequest
  /\ granted => platformOS = "android"
  /\ ProviderStep(setHasPermissions([provider EXCEPT !.pendingRequest = FALSE], listeners,
                                    IF granted THEN "true" ELSE "false"))

\* a consumer of the context calls startListening
StartListening ==
  /\ provider.mounted = "yes"
  /\ provider' = startListening(provider, listeners).provider
  /\ listeners' = startListening(provider, listeners).listeners
  /\ log' = [log EXCEPT !.starts = TRUE]
  /\ UNCHANGED <<platformOS, smsModule, inbox, recentlyProcessedSMS, cycles, store, nextId,
                 screen, smsInput, parseResult>>

\* a consumer of the context calls stopListening
StopListening ==
  /\ provider.mounted = "yes"
  /\ IF provider.stopListenerCallback = NoCallback
     THEN ProviderStep([provider |-> provider, listeners |-> listeners])
     ELSE ProviderStep([provider |-> [provider EXCEPT !.stopListenerCallback = NoCallback,
                                                      !.isListening = FALSE],
                        listeners |-> CallStop(listeners, provider.stopListenerCallback)])

\* SMSProvider unmounts: the clean-up of the effect runs
Unmount ==
  /\ provider.mounted = "yes"
  /\ ProviderStep([provider |-> [provider EXCEPT !.mounted = "gone"],
                   listeners |-> CallStop(listeners, provider.cleanupCallback)])

(***************************************************************************)
(* app/sms-input.tsx: SMSInputScreen                                       *)
(***************************************************************************)
\* the texts the user types or pastes
ManualTexts == {"", HdfcDebitSMS, OtpSMS}

ScreenStep(sc) ==
  /\ screen' = sc
  /\ UNCHANGED <<platformOS, smsModule, inbox, recentlyProcessedSMS, listeners, cycles, store,
                 nextId, provider, log, smsInput, parseResult>>

\* onChangeText={setSmsText} or pasteFromClipboard, and the effect on [smsText]
ChangeText(text) ==
  /\ text # screen.smsText
  /\ ScreenStep([screen EXCEPT
       !.smsText = text,
       !.transaction = IF Trim(text) = "" THEN Null ELSE @,
       !.error = IF Trim(text) # "" THEN NoError ELSE @])

clearInput ==
  /\ screen.smsText # ""
  /\ ScreenStep([screen EXCEPT !.smsText = "", !.transaction = Null, !.error = NoError])

\* the record analyzeSMS shows for preview once categorizeTransaction answered
previewOf(parsedTransaction, prediction) ==
  [parsedTransaction EXCEPT
     !.category = categorizeTransaction(parsedTransaction.description, prediction)]

\* "Analyze SMS" is pressed (disabled while the text is blank or an analysis
\* runs): analyzeSMS up to its await, or to its end when nothing is parsed
analyzeSMS(today) ==
  /\ Trim(screen.smsText) # ""
  /\ ~screen.isLoading
  /\ screen.analyses < MaxAnalyses
  /\ LET parsedTransaction == parseSMSBody(screen.smsText, nextId, today)
     IN IF parsedTransaction # Null
        THEN /\ screen' = [screen EXCEPT !.isLoading = TRUE, !.error = NoError,
                                         !.analysis = parsedTransaction,
                                         !.analyses = @ + 1]
             /\ nextId' = nextId + 1
        ELSE /\ screen' = [screen EXCEPT !.error = NotIdentifiedError, !.analyses = @ + 1]
             /\ UNCHANGED nextId
  /\ UNCHANGED <<platformOS, smsModule, inbox, recentlyProcessedSMS, listeners, cycles, store,
                 provider, log, smsInput, parseResult>>

\* categorizeTransaction answers analyzeSMS
AnalyzeReturns(prediction) ==
  /\ screen.analysis # Null
  /\ ScreenStep([screen EXCEPT
       !.transaction = Some(previewOf(screen.analysis[1], prediction)),
       !.isLoading = FALSE,
       !.analysis = Null])

\* "Save Transaction" is pressed (shown when transaction && !isLoading,
\* disabled while isSaving): saveTransaction of the screen up to getItem
SavePressed ==
  /\ screen.transaction # Null
  /\ ~screen.isLoading
  /\ ~screen.isSaving
  /\ screen.presses < MaxManualSaves
  /\ ScreenStep([screen EXCEPT
       !.isSaving = TRUE,
       !.presses = @ + 1,
       !.saves = Append(@, [pc |-> "getItem", tx |-> screen.transaction[1], snap |-> <<>>])])

\* saveTransaction of storageService called by the screen: getItem answers
ManualGetItemReturns(j, ok) ==
  /\ j \in DOMAIN screen.saves
  /\ screen.saves[j].pc = "getItem"
  /\ ScreenStep(IF ok
                THEN [screen EXCEPT !.saves[j].pc = "setItem", !.saves[j].snap = store]
                ELSE [screen EXCEPT !.saves = Remove(@, j), !.isSaving = FALSE])

\* saveTransaction of storageService called by the screen: setItem answers
ManualSetItemReturns(j, ok) ==
  /\ j \in DOMAIN screen.saves
  /\ screen.saves[j].pc = "setItem"
  /\ store' = IF ok THEN saveTransaction(screen.saves[j].snap, screen.saves[j].tx) ELSE store
  /\ screen' = [screen EXCEPT !.saves = Remove(@, j), !.isSaving = FALSE]
  /\ UNCHANGED <<platformOS, smsModule, inbox, recentlyProcessedSMS, listeners, cycles,
                 nextId, provider, log, smsInput, parseResult>>

(***************************************************************************)
(* services/storageService.ts: the bulk operations of the expenses screen  *)
(***************************************************************************)
\* clearAllTransactions: removeItem resolves, or rejects and is logged
clearAllTransactions(ok) ==
  /\ store' = IF ok THEN <<>> ELSE store
  /\ store' # store
  /\ UNCHANGED <<platformOS, smsModule, inbox, recentlyProcessedSMS, listeners, cycles,
                 nextId, provider, log, screen, smsInput, parseResult>>

\* the sample records of addSampleTransactions: amount, description,
\* category, type, bank
sampleTransactions ==
  << <<1499, "Amazon.in - Books", "Shopping", "debit", "HDFC">>,
     <<1299, "Swiggy Order - Food Delivery", "Food & Dining", "debit", "HDFC">>,
     <<2499, "Mobile Bill - Airtel", "Bills & Utilities", "debit", "HDFC">>,
     <<5999, "Rent Payment", "Home", "debit", "SBI">>,
     <<799, "Netflix Subscription", "Entertainment", "debit", "ICICI">>,
     <<450, "Uber Ride", "Transport", "debit", "HDFC">>,
     <<3500, "Doctor Visit - Apollo Hospital", "Health", "debit", "SBI">>,
     <<2199, "Flipkart - Headphones", "Shopping", "debit", "ICICI">>,
     <<1800, "Restaurant - Birthday dinner", "Food & Dining", "debit", "HDFC">>,
     <<9800, "Flight Tickets - MakeMyTrip", "Travel", "debit", "SBI">>,
     <<45000, "Salary Credit", "Income", "credit", "HDFC">>,
     <<5000, "Freelance Payment", "Income", "credit", "ICICI">>,
     <<2500, "Investment Dividend", "Investment", "credit", "SBI">>,
     <<899, "Gym Membership", "Health", "debit", "HDFC">>,
     <<349, "Spotify Premium", "Entertainment", "debit", "HDFC">> >>

\* the array addSampleTransactions writes when v4() returns firstId onwards
sampleRecords(firstId) ==
  [n \in DOMAIN sampleTransactions |->
     [Transaction(firstId + n - 1, Number(sampleTransactions[n][1]), "<iso date>",
                  sampleTransactions[n][2], sampleTransactions[n][4], Undefined,
                  sampleTransactions[n][5])
      EXCEPT !.category = sampleTransactions[n][3]]]

\* addSampleTransactions: getItem answers; with data present it returns,
\* else it builds the samples and awaits setItem
addSampleTransactions(ok) ==
  /\ screen.seeding = Null
  /\ screen.seeds < MaxSeeds
  /\ IF ok /\ Len(store) = 0
     THEN /\ screen' = [screen EXCEPT !.seeding = Some(nextId), !.seeds = @ + 1]
          /\ nextId' = nextId + Len(sampleTransactions)
     ELSE /\ screen' = [screen EXCEPT !.seeds = @ + 1]
          /\ UNCHANGED nextId
  /\ UNCHANGED <<platformOS, smsModule, inbox, recentlyProcessedSMS, listeners, cycles, store,
                 provider, log, smsInput, parseResult>>

\* addSampleTransactions: setItem answers
SeedSetItemReturns(ok) ==
  /\ screen.seeding # Null
  /\ store' = IF ok THEN sampleRecords(screen.seeding[1]) ELSE store
  /\ screen' = [screen EXCEPT !.seeding = Null]
  /\ UNCHANGED <<platformOS, smsModule, inbox, recentlyProcessedSMS, listeners, cycles,
                 nextId, provider, log, smsInput, parseResult>>

NextManual ==
  \/ \E text \in ManualTexts : ChangeText(text)
  \/ clearInput
  \/ \E today \in Dates : analyzeSMS(today)
  \/ \E prediction \in Predictions : AnalyzeReturns(prediction)
  \/ SavePressed
  \/ \E j \in DOMAIN screen.saves, ok \in BOOLEAN : ManualGetItemReturns(j, ok)
  \/ \E j \in DOMAIN screen.saves, ok \in BOOLEAN : ManualSetItemReturns(j, ok)
  \/ \E ok \in BOOLEAN : clearAllTransactions(ok)
  \/ \E ok \in BOOLEAN : addSampleTransactions(ok)
  \/ \E ok \in BOOLEAN : SeedSetItemReturns(ok)

(***************************************************************************)
(* parseTransactionSMS applied to one text                                 *)
(***************************************************************************)
\* the texts given to the extractor: a message of each template and of the
\* generic fallback, <<before the amount, after the amount>>
Shapes == {
  <<"HDFC Bank: INR ", " debited from a/c XX1234 on 12-04-23 AMAZON. Avl bal: INR 24,599.35">>,
  <<"HDFC Bank: INR ", " credited to a/c XX1234 on 12-04-23 SALARY. Avl bal: INR 24,599.35">>,
  <<"INR ", " debited from A/c no XX1234 on 12-04-23 ATM WDL. Bal: INR 5,000.00">>,
  <<"INR ", " credited to A/c no XX1234 on 12-04-23 NEFT. Bal: INR 5,000.00">>,
  <<"Dear UPI user A/C X1234 debited by ", " on date 18Feb25 trf to Jamal Store Refno 123456789">>,
  <<"Tranx of Rs.", " done on 18Feb25 to A/c no XX12 of RAM is complete. From SBI A/c XX34">>,
  <<"INR ", " spent on ICICI Card XX1234 on 01-02-24 at BIG BAZAAR.">>,
  <<"INR ", " debited on 01-02-24 from A/c XX1234 POS. Avl Bal INR 100.00">>,
  <<"INR ", " credited on 01-02-24 to A/c XX1234 IMPS. Avl Bal INR 100.00">>,
  <<"INR ", " paid to Store successfully on 01-02-24">>,
  <<"INR ", " sent to Ravi via UPI on 01-02-24">>,
  <<"Rs ", " paid at the counter">>,
  <<"Rs ", " received from Ravi on 01-02-24">>,
  <<"Rs ", " refund paid to your account">>,
  <<"Rs ", " transaction at the counter">>,
  <<"INR ", " sent to Ravi via UPI on 01-02-24 INR 6 paid to Store successfully on 03-02-24">>,
  <<"Your a/c is debited by ", " on date 18Feb25 trf to Shop">>,
  <<"Your OTP is ", ". Do not share it">> }

\* what stands where the amount is expected
AmountTexts == {"1,499.00", "60.0", "0", "1,23,456.78", ",", ".", "12.", "-5", "", "1.2.3"}

InitParse ==
  /\ platformOS = "android"
  /\ smsModule = TRUE
  /\ inbox = <<>>
  /\ recentlyProcessedSMS = <<>>
  /\ listeners = <<>>
  /\ cycles = <<>>
  /\ store = <<>>
  /\ nextId = 1
  /\ provider = InitProvider
  /\ log = [persisted |-> <<>>, notified |-> <<>>, failed |-> {}, checks |-> {},
            dropped |-> FALSE, starts |-> FALSE]
  /\ screen = InitScreen
  /\ \E shape \in Shapes, amount \in AmountTexts : smsInput = shape[1] \o amount \o shape[2]
  /\ parseResult = Null

\* the days on which the extractor runs, as toLocaleDateString('en-IN')
ParseDates == {"5/11/2026", "6/11/2026"}

\* calls of parseTransactionSMS on one text
MaxParses == 2

\* parseTransactionSMS(smsInput) is called
Parse(today) ==
  /\ parseResult = Null
  /\ parseResult' = parseTransactionSMS(smsInput, nextId, today)
  /\ nextId' = IF parseResult' = Null THEN nextId ELSE nextId + 1
  /\ UNCHANGED <<platformOS, smsModule, inbox, recentlyProcessedSMS, listeners, cycles, store,
                 provider, log, screen, smsInput>>

\* parseTransactionSMS(smsInput) is called once more
ParseAgain(today) ==
  /\ parseResult # Null
  /\ nextId <= MaxParses
  /\ parseResult' = parseTransactionSMS(smsInput, nextId, today)
  /\ nextId' = nextId + 1
  /\ UNCHANGED <<platformOS, smsModule, inbox, recentlyProcessedSMS, listeners, cycles, store,
                 provider, log, screen, smsInput>>

NextParse ==
  \/ \E today \in ParseDates : Parse(today)
  \/ \E today \in ParseDates : ParseAgain(today)

NextAuto ==
  \/ \E address \in Senders, body \in Bodies : NewSMS(address, body)
  \/ \E l \in DOMAIN listeners : Tick(l)
  \/ \E k \in DOMAIN cycles : ListFails(k)
  \/ \E k \in DOMAIN cycles, today \in Dates : ListSucceeds(k, today)
  \/ \E k \in DOMAIN cycles, outcome \in VerifyOutcomes, today \in Dates : VerifyReturns(k, outcome, today)
  \/ \E k \in DOMAIN cycles, prediction \in Predictions : CategorizeReturns(k, prediction)
  \/ \E k \in DOMAIN cycles, ok \in BOOLEAN, today \in Dates : GetItemReturns(k, ok, today)
  \/ \E k \in DOMAIN cycles, ok \in BOOLEAN, throws \in BOOLEAN, today \in Dates :
        SetItemReturns(k, ok, throws, today)
  \/ Mount /\ Len(listeners') <= MaxListeners
  \/ \E granted \in BOOLEAN : CheckPermissionsReturns(granted) /\ Len(listeners') <= MaxListeners
  \/ RequestPermissions
  \/ \E granted \in BOOLEAN : RequestPermissionsReturns(granted) /\ Len(listeners') <= MaxListeners
  \/ StartListening /\ Len(listeners') <= MaxListeners
  \/ StopListening
  \/ Unmount

Spec == Init /\ [][NextAuto]_vars

SpecManual == Init /\ [][NextManual]_vars

SpecParse == InitParse /\ [][NextParse]_vars

(***************************************************************************)
(* The recently-processed cache under a long run of insertions             *)
(***************************************************************************)
MaxInserts == 130    \* distinct ids handed to addToProcessedCache

\* the ids processSMSMessage may hand to addToProcessedCache: the id of a
\* message not seen before (ids grow with the messages), or (two callers
\* having passed line 158 for the same message) an id that is in the cache,
\* the oldest or the newest
InsertableIds ==
  IF recentlyProcessedSMS = <<>>
  THEN {1}
  ELSE {Max({recentlyProcessedSMS[n] : n \in DOMAIN recentlyProcessedSMS}) + 1,
        recentlyProcessedSMS[1],
        recentlyProcessedSMS[Len(recentlyProcessedSMS)]}

\* processSMSMessage line 197: addToProcessedCache(sms._id)
AddToCache(smsId) ==
  /\ smsId <= MaxInserts
  /\ recentlyProcessedSMS' = addToProcessedCache(recentlyProcessedSMS, smsId)
  /\ UNCHANGED <<platformOS, smsModule, inbox, listeners, cycles, store, nextId, provider, log, screen, smsInput, parseResult>>

NextCache == \E smsId \in InsertableIds : AddToCache(smsId)

SpecCache == Init /\ [][NextCache]_vars

(***************************************************************************)
(* The two callers of saveTransaction side by side: the polling callback    *)
(* of the provider's listener and the "Save Transaction" button of the      *)
(* SMS input screen, over one AsyncStorage                                  *)
(***************************************************************************)
NextSaves ==
  \/ Mount
  \/ CheckPermissionsReturns(TRUE)
  \/ \E body \in {SpacedDebitSMS, CommaAmountSMS} : NewSMS("+919812345678", body)
  \/ \E l \in DOMAIN listeners : Tick(l)
  \/ \E k \in DOMAIN cycles, today \in Dates : ListSucceeds(k, today)
  \/ \E k \in DOMAIN cycles, prediction \in Predictions : CategorizeReturns(k, prediction)
  \/ \E k \in DOMAIN cycles, ok \in BOOLEAN, today \in Dates : GetItemReturns(k, ok, today)
  \/ \E k \in DOMAIN cycles, ok \in BOOLEAN, today \in Dates : SetItemReturns(k, ok, FALSE, today)
  \/ ChangeText(SpacedDebitSMS)
  \/ \E today \in Dates : analyzeSMS(today)
  \/ \E prediction \in Predictions : AnalyzeReturns(prediction)
  \/ SavePressed
  \/ \E j \in DOMAIN screen.saves, ok \in BOOLEAN : ManualGetItemReturns(j, ok)
  \/ \E j \in DOMAIN screen.saves, ok \in BOOLEAN : ManualSetItemReturns(j, ok)

SpecSaves == Init /\ [][NextSaves]_vars

(***************************************************************************)
(* The listener of the provider under every answer of the inbox read,      *)
(* with the answers that are awaited arriving in the end                   *)
(***************************************************************************)
\* SmsAndroid.list calls the success callback of readSMSMessages with a
\* count above zero and a text JSON.parse rejects (lines 272-275): the
\* exception leaves the callback of the native module, outside the try of
\* readSMSMessages, and neither onSuccess nor onError is called
ListMalformed(k) ==
  /\ k \in DOMAIN cycles
  /\ cycles[k].pc = "list"
  /\ cycles' = Remove(cycles, k)
  /\ UNCHANGED <<platformOS, smsModule, inbox, recentlyProcessedSMS, listeners, store, nextId,
                 provider, log, screen, smsInput, parseResult>>

\* the inbox read of a polling callback answers, one way or another
ListAnswers ==
  \E k \in DOMAIN cycles :
    \/ ListFails(k)
    \/ ListMalformed(k)
    \/ \E today \in Dates : ListSucceeds(k, today)

\* an await of processSMSMessage settles
AwaitSettles ==
  \E k \in DOMAIN cycles, today \in Dates :
    \/ \E outcome \in VerifyOutcomes : VerifyReturns(k, outcome, today)
    \/ \E prediction \in Predictions : CategorizeReturns(k, prediction)
    \/ \E ok \in BOOLEAN : GetItemReturns(k, ok, today)
    \/ \E ok \in BOOLEAN, throws \in BOOLEAN : SetItemReturns(k, ok, throws, today)

NextGuard ==
  \/ Mount
  \/ CheckPermissionsReturns(TRUE)
  \/ \E address \in Senders : NewSMS(address, HdfcDebitSMS)
  \/ \E l \in DOMAIN listeners : Tick(l)
  \/ \E k \in DOMAIN cycles : ListFails(k)
  \/ \E k \in DOMAIN cycles : ListMalformed(k)
  \/ \E k \in DOMAIN cycles, today \in Dates : ListSucceeds(k, today)
  \/ \E k \in DOMAIN cycles, outcome \in VerifyOutcomes, today \in Dates : VerifyReturns(k, outcome, today)
  \/ \E k \in DOMAIN cycles, prediction \in Predictions : CategorizeReturns(k, prediction)
  \/ \E k \in DOMAIN cycles, ok \in BOOLEAN, today \in Dates : GetItemReturns(k, ok, today)
  \/ \E k \in DOMAIN cycles, ok \in BOOLEAN, throws \in BOOLEAN, today \in Dates :
        SetItemReturns(k, ok, throws, today)

\* the native module calls one of the two callbacks of SmsAndroid.list, and
\* the promises processSMSMessage awaits settle
SpecGuard == Init /\ [][NextGuard]_vars /\ WF_vars(ListAnswers) /\ WF_vars(AwaitSettles)

(***************************************************************************)
(* SMSProvider alone, over more starts and stops of its listener           *)
(***************************************************************************)
MaxStarts == 3       \* calls of startSMSListener by the provider

NextProvider ==
  \/ Mount /\ Len(listeners') <= MaxStarts
  \/ \E granted \in BOOLEAN : CheckPermissionsReturns(granted) /\ Len(listeners') <= MaxStarts
  \/ RequestPermissions
  \/ \E granted \in BOOLEAN : RequestPermissionsReturns(granted) /\ Len(listeners') <= MaxStarts
  \/ StartListening /\ Len(listeners') <= MaxStarts
  \/ StopListening
  \/ Unmount

SpecProvider == Init /\ [][NextProvider]_vars

(***************************************************************************)
(* Two callers of startSMSListener (SMSProvider.startListening,            *)
(* handleStartListener of SMSReaderExample), their listeners polling side  *)
(* by side over the one cache                                              *)
(***************************************************************************)
MaxCallers == 2      \* calls of startSMSListener

\* a caller that found the module available and the permissions granted
\* calls startSMSListener
CallStartSMSListener ==
  /\ checkSMSModuleAvailability
  /\ Len(listeners) < MaxCallers
  /\ listeners' = startSMSListener(listeners).listeners
  /\ UNCHANGED <<platformOS, smsModule, inbox, recentlyProcessedSMS, cycles, store, nextId,
                 provider, log, screen, smsInput, parseResult>>

NextTwo ==
  \/ CallStartSMSListener
  \/ \E address \in Senders : NewSMS(address, HdfcDebitSMS)
  \/ \E l \in DOMAIN listeners : Tick(l)
  \/ \E k \in DOMAIN cycles, today \in Dates : ListSucceeds(k, today)
  \/ \E k \in DOMAIN cycles, outcome \in VerifyOutcomes, today \in Dates : VerifyReturns(k, outcome, today)
  \/ \E k \in DOMAIN cycles, prediction \in Predictions : CategorizeReturns(k, prediction)
  \/ \E k \in DOMAIN cycles, today \in Dates : GetItemReturns(k, TRUE, today)
  \/ \E k \in DOMAIN cycles, today \in Dates : SetItemReturns(k, TRUE, FALSE, today)

SpecTwo == Init /\ [][NextTwo]_vars

(***************************************************************************)
(* One listener over a long inbox: more messages than the cache holds,     *)
(* arriving one by one or in bursts between two ticks                      *)
(***************************************************************************)
MaxArrivals == 130   \* messages that arrive in the inbox
BurstSizes == {1, 20, 25}
\* the inbox lengths at which a burst of more than one message may arrive
BurstPoints == {0, 30, 60, 90}

\* the messages n + 1 .. n + count, newest first
RECURSIVE Arrivals(_, _)
Arrivals(n, count) ==
  IF count = 0 THEN <<>>
  ELSE IF count = 1
       THEN <<[_id |-> n + 1, address |-> "+919812345678", body |-> HdfcDebitSMS]>>
       ELSE Arrivals(n + count \div 2, count - count \div 2) \o Arrivals(n, count \div 2)

\* count messages arrive while the started listener is idle and has seen the
\* inbox
NewSMSBurst(count) ==
  /\ Len(inbox) + count <= MaxArrivals
  /\ count > 1 => Len(inbox) \in BurstPoints
  /\ listeners # <<>>
  /\ cycles = <<>>
  /\ IF inbox = <<>> THEN TRUE
     ELSE \A l \in DOMAIN listeners : listeners[l].lastReadSmsId = inbox[1]._id
  /\ inbox' = Arrivals(Len(inbox), count) \o inbox
  /\ UNCHANGED <<platformOS, smsModule, recentlyProcessedSMS, listeners, cycles, store,
                 nextId, provider, log, screen, smsInput, parseResult>>

NextWindow ==
  \/ Mount
  \/ CheckPermissionsReturns(TRUE)
  \/ \E count \in BurstSizes : NewSMSBurst(count)
  \/ \E l \in DOMAIN listeners : Tick(l)
  \/ \E k \in DOMAIN cycles, today \in Dates : ListSucceeds(k, today)
  \/ \E k \in DOMAIN cycles, prediction \in Predictions : CategorizeReturns(k, prediction)
  \/ \E k \in DOMAIN cycles, today \in Dates : GetItemReturns(k, TRUE, today)
  \/ \E k \in DOMAIN cycles, today \in Dates : SetItemReturns(k, TRUE, FALSE, today)

SpecWindow == Init /\ [][NextWindow]_vars

(***************************************************************************)
(* Properties                                                              *)
(***************************************************************************)
\* the records listener l persisted for the inbox message with _id m
Persisted(l, m) ==
  {i \in DOMAIN log.persisted : log.persisted[i].l = l /\ log.persisted[i].sms = m}
\* the polling callbacks of listener l in flight
InFlightFor(l) == {k \in DOMAIN cycles : cycles[k].l = l}
\* the message with _id m went through the extractor and no polling callback
\* is still working on it
Handled(m) ==
  /\ SeqHas(recentlyProcessedSMS, m)
  /\ \A k \in DOMAIN cycles :
       cycles[k].pc \in {"categorize", "getItem", "setItem"} => cycles[k].cands[cycles[k].i]._id # m
SaveFailedFor(m) == \E f \in log.failed : f.sms = m

\* C1 (as amended): one listener never persists two Transactions for the
\* same inbox message, however many fetched batches the message appears in;
\* and a message that went through the extractor has a persisted Transaction
\* unless saveTransaction failed for it.
C1_AtMostOnePerMessage ==
  \A m \in 1..Len(inbox) :
    /\ \A l \in DOMAIN listeners : Cardinality(Persisted(l, m)) <= 1
    /\ (Handled(m) /\ ~SaveFailedFor(m)) => \E l \in DOMAIN listeners : Persisted(l, m) # {}

\* C1 as stated: a recognized message that went through the polling path has
\* exactly one persisted Transaction.
C1_ExactlyOne ==
  \A m \in 1..Len(inbox) :
    Handled(m) => Cardinality({i \in DOMAIN log.persisted : log.persisted[i].sms = m}) = 1

\* message 1 was persisted by a batch, and a later batch of the same
\* listener fetched it again together with message 2
C1_Witness ==
  \E l \in DOMAIN listeners :
    /\ Len(inbox) = 2
    /\ listeners[l].lastReadSmsId = 2
    /\ ~listeners[l].isProcessing
    /\ Persisted(l, 1) # {}
    /\ \A n \in DOMAIN listeners[l].lastBatch.cands : listeners[l].lastBatch.cands[n]._id # 1

\* C2: a listener has a polling callback in flight exactly while its
\* isProcessing flag is set, and never more than one: a tick that fires
\* while the flag is set starts no inbox read.
C2_OneCycleInFlight ==
  \A l \in DOMAIN listeners :
    Cardinality(InFlightFor(l)) = IF listeners[l].isProcessing THEN 1 ELSE 0

\* a tick was dropped and the batch of the earlier tick is still in flight
C2_Witness ==
  /\ log.dropped
  /\ \E k \in DOMAIN cycles : cycles[k].pc # "list" /\ listeners[cycles[k].l].isProcessing

\* C3 as stated: when a polling callback has ended, every candidate of its
\* batch was passed to processSMSMessage.
C3_BatchCompletes ==
  \A l \in DOMAIN listeners :
    listeners[l].lastBatch.passed = Len(listeners[l].lastBatch.cands)

\* C4: the confidence check is called exactly for the financial senders, and
\* extraction is skipped exactly when the check was called, returned
\* isTransaction = false and a confidence above 0.8; when it throws or answers
\* anything else, extraction proceeds.
C4_CheckDecides ==
  \A e \in log.checks :
    /\ e.called <=> e.address \in financialSenders
    /\ e.extracted <=> ~(e.called /\ ~e.threw /\ ~e.isTransaction /\ e.confidence > 8)

\* one message was skipped by the check and for another one the check threw
\* and extraction went on
C4_Witness ==
  \E e1, e2 \in log.checks :
    /\ e1.called /\ ~e1.extracted
    /\ e2.called /\ e2.threw /\ e2.extracted

\* C5: a record whose saveTransaction failed is not in the persisted
\* collection, and no new-transaction notification was emitted for it.
C5_FailedNotPersisted ==
  \A f \in log.failed :
    /\ \A n \in DOMAIN store : store[n].id # f.id
    /\ \A n \in DOMAIN log.notified : log.notified[n] # f.id

\* a save failed, and another record was persisted and notified
C5_Witness ==
  /\ log.failed # {}
  /\ Len(store) > 0
  /\ Len(log.notified) > 0

\* C6: once the stop function of a listener has been called, no polling
\* callback of that listener starts any more (no tick reads the inbox), and
\* the call itself leaves every polling callback in flight as it is.
C6_StopEndsPolling ==
  [][/\ \A l \in DOMAIN listeners :
          listeners[l].stopped =>
            /\ listeners'[l].stopped
            /\ Cardinality(InFlightFor(l))' <= Cardinality(InFlightFor(l))
            /\ listeners'[l].isProcessing => listeners[l].isProcessing
     /\ (\E l \in DOMAIN listeners : ~listeners[l].stopped /\ listeners'[l].stopped)
          => cycles' = cycles /\ store' = store]_vars

\* a batch was in flight when stop was called, and it went on to its end
\* and persisted a record
C6_Witness ==
  \E l \in DOMAIN listeners :
    /\ listeners[l].stopped
    /\ listeners[l].inFlightAtStop
    /\ ~listeners[l].isProcessing
    /\ listeners[l].lastBatch.passed = Len(listeners[l].lastBatch.cands)
    /\ \E n \in DOMAIN listeners[l].lastBatch.cands :
         Persisted(l, listeners[l].lastBatch.cands[n]._id) # {}

\* C7 as stated: no two records of the persisted collection have the same id.
C7_UniqueIds ==
  \A i, j \in DOMAIN store : store[i].id = store[j].id => i = j

\* C8 as stated: when the screen shows that no transaction was identified, no
\* record is offered for saving.
C8_NoOfferAfterFailedParse ==
  screen.error = NotIdentifiedError => screen.transaction = Null

\* C9: off Android, or with the SMS module absent, no listener exists, no
\* polling callback runs, and isAvailable stays false so that startListening
\* of the provider returns before startSMSListener; off Android
\* startSMSListener itself creates no timer and returns the no-op function.
C9_NoAutomaticPath ==
  /\ (platformOS # "android" \/ ~smsModule) =>
       /\ listeners = <<>>
       /\ cycles = <<>>
       /\ ~provider.isAvailable
       /\ ~provider.isListening
       /\ provider.stopListenerCallback = NoCallback
  /\ platformOS # "android" =>
       startSMSListener(listeners) = [stop |-> NoopCallback, listeners |-> listeners]

\* off Android the provider is mounted and startListening was called
C9_Witness ==
  /\ platformOS # "android"
  /\ provider.mounted = "yes"
  /\ ~provider.isAvailable
  /\ log.starts

\* C10 as stated: a Transaction returned by parseTransactionSMS has an amount
\* that is a number and not negative.
C10_AmountNumeric ==
  parseResult # Null =>
    /\ parseResult[1].amount.k = "num"
    /\ parseResult[1].amount.m >= 0

\* the text parseTransactionSMS matches: smsInput with its white space
\* collapsed and trimmed
CleanedInput == Trim(CollapseWhiteSpace(smsInput))
\* the captures of BANK_PATTERNS[i] in the text
CapturesOf(i) == Match(CleanedInput, BANK_PATTERNS[i].regex, BANK_PATTERNS[i].groups).caps
\* some word of W stands in the text, in any case
HasWord(text, W) == \E lower \in {toLowerCase(text)} : \E w \in W : Includes(lower, w)
DebitWords == {"debited", "sent", "paid", "spent", "withdraw", "purchase"}
CreditWords == {"credited", "received", "refund", "cashback"}

\* C11 as stated: the record parseTransactionSMS returns is never the one
\* built by a template one of whose numeric captures did not parse to a
\* number; such a template counts as no match.
C11_UnparsedCaptureIsNoMatch ==
  parseResult # Null =>
    \A i \in MatchingPatterns(CleanedInput) :
      \A built \in {extract(i, CapturesOf(i), parseResult[1].id)} :
        (built.amount = NaN \/ built.balance = NaN)
          => parseResult[1] # [built EXCEPT !.originalSMS = CleanedInput]

\* C12 as stated: when no template matches, a Transaction is returned only
\* if the currency-marked amount search or the "debited by" search yields a
\* number.
C12_NoAmountNoTransaction ==
  (parseResult # Null /\ MatchingPatterns(CleanedInput) = {}) =>
    \E m \in {<<Match(CleanedInput, amountRegex, 2), Match(CleanedInput, debitedByRegex, 1)>>} :
      \/ m[1].ok /\ parseFloat(StripCommas(m[1].caps[2])) # NaN
      \/ m[2].ok /\ parseFloat(StripCommas(m[2].caps[1])) # NaN

\* C13: a returned Transaction has type debit or credit, and one of the
\* generic fallback is credit exactly when the text holds a credit keyword
\* and no debit keyword.
C13_TypeDebitOrCredit ==
  parseResult # Null =>
    /\ parseResult[1].type \in {"debit", "credit"}
    /\ MatchingPatterns(CleanedInput) = {} =>
         (parseResult[1].type = "credit"
            <=> HasWord(CleanedInput, CreditWords) /\ ~HasWord(CleanedInput, DebitWords))

\* a generic record for a text with keywords of both kinds
C13_Witness ==
  /\ parseResult # Null
  /\ parseResult[1].bank = "Unknown"
  /\ parseResult[1].type = "debit"
  /\ HasWord(smsInput, CreditWords)
  /\ HasWord(smsInput, DebitWords)

\* C14: the returned record is the one built by the first BANK_PATTERNS
\* entry, in list order, whose regex matches; the generic fallback builds it
\* only when no entry matches.
C14_FirstMatchWins ==
  parseResult # Null =>
    \A M \in {MatchingPatterns(CleanedInput)} :
      IF M = {}
      THEN \E today \in ParseDates :
             parseResult = extractGenericTransaction(CleanedInput, parseResult[1].id, today)
      ELSE parseResult[1] = [extract(Min(M), CapturesOf(Min(M)), parseResult[1].id)
                             EXCEPT !.originalSMS = CleanedInput]

\* a text that two templates match, parsed by the earlier-listed one
C14_Witness ==
  /\ parseResult # Null
  /\ parseResult[1].bank = "PayTM"
  /\ Cardinality(MatchingPatterns(CleanedInput)) >= 2

\* two records that are equal field for field but for the id and a date
\* defaulted to the day of the run (the text then holds no numeric date)
SameButIdAndNow(a, b) ==
  /\ [a EXCEPT !.id = 0, !.date = ""] = [b EXCEPT !.id = 0, !.date = ""]
  /\ \/ a.date = b.date
     \/ a.date \in ParseDates /\ b.date \in ParseDates /\ ~Test(smsInput, dateRegex)

Working(l) ==
  {k \in InFlightFor(l) : cycles[k].pc \in {"verify", "categorize", "getItem", "setItem"}}
HandlingOf(l) == {cycles[k].cands[cycles[k].i]._id : k \in Working(l)}

\* C16: when the inbox read of a tick answers with a batch that is not empty
\* and whose newest message is the one the listener saw last, the polling
\* callback ends at once: nothing is filtered or processed, the cache, the
\* store and the ids given are unchanged and nothing is notified.
C16_UnchangedBatchSkipped ==
  [][\A l \in DOMAIN listeners :
       (/\ \E k \in InFlightFor(l) : cycles[k].pc = "list"
        /\ Len(inbox) > 0
        /\ listeners[l].lastReadSmsId = inbox[1]._id
        /\ \A k \in InFlightFor(l)' : cycles'[k].pc # "list")
       => /\ InFlightFor(l)' = {}
          /\ ~listeners'[l].isProcessing
          /\ recentlyProcessedSMS' = recentlyProcessedSMS
          /\ store' = store
          /\ nextId' = nextId
          /\ log' = log
          /\ provider' = provider]_vars

\* the newest message was persisted by a batch of the listener, and a later
\* tick of the listener found it still the newest and skipped the batch
C16_Witness ==
  \E l \in DOMAIN listeners :
    /\ Len(inbox) > 0
    /\ listeners[l].lastReadSmsId = inbox[1]._id
    /\ Persisted(l, inbox[1]._id) # {}
    /\ ~listeners[l].isProcessing
    /\ listeners[l].lastBatch.cands = <<>>

\* C17: while a message is categorized and persisted its id is in the
\* cache; an id in the cache stays there (the cache being short of its
\* capacity), whatever fails; and processSMSMessage goes past its first
\* check only for a message whose id is not in the cache.
C17_CachedBeforePersisting ==
  /\ [](\A k \in DOMAIN cycles :
          cycles[k].pc \in {"categorize", "getItem", "setItem"}
            => SeqHas(recentlyProcessedSMS, cycles[k].cands[cycles[k].i]._id))
  /\ [][/\ Len(recentlyProcessedSMS) < MAX_CACHE_SIZE =>
             \A n \in DOMAIN recentlyProcessedSMS :
               SeqHas(recentlyProcessedSMS', recentlyProcessedSMS[n])
        /\ \A l \in DOMAIN listeners :
             \A m \in HandlingOf(l)' \ HandlingOf(l) : ~SeqHas(recentlyProcessedSMS, m)]_vars

\* the save of a message failed, its id is in the cache, and a later batch
\* of the listener, fetched with the message in it, left it out
C17_Witness ==
  \E l \in DOMAIN listeners :
    /\ Len(inbox) = 2
    /\ SaveFailedFor(1)
    /\ SeqHas(recentlyProcessedSMS, 1)
    /\ listeners[l].lastReadSmsId = 2
    /\ ~listeners[l].isProcessing
    /\ Persisted(l, 1) = {}

\* C18: the cache never holds more than MAX_CACHE_SIZE ids; an insertion
\* that finds it at MAX_CACHE_SIZE removes the MAX_CACHE_SIZE / 4 oldest ids
\* and no others before the id is added, and an insertion that finds it
\* shorter removes nothing.
C18_CacheBounded ==
  /\ [](Len(recentlyProcessedSMS) <= MAX_CACHE_SIZE)
  /\ [][recentlyProcessedSMS' # recentlyProcessedSMS =>
          IF Len(recentlyProcessedSMS) >= MAX_CACHE_SIZE
          THEN /\ Len(recentlyProcessedSMS') \in
                    {MAX_CACHE_SIZE - MAX_CACHE_SIZE \div 4,
                     MAX_CACHE_SIZE - MAX_CACHE_SIZE \div 4 + 1}
               /\ SubSeq(recentlyProcessedSMS', 1, MAX_CACHE_SIZE - MAX_CACHE_SIZE \div 4)
                    = SubSeq(recentlyProcessedSMS, MAX_CACHE_SIZE \div 4 + 1, MAX_CACHE_SIZE)
               /\ \A n \in 1..(MAX_CACHE_SIZE \div 4) :
                    \A j \in 1..(MAX_CACHE_SIZE - MAX_CACHE_SIZE \div 4) :
                      recentlyProcessedSMS'[j] # recentlyProcessedSMS[n]
          ELSE /\ Len(recentlyProcessedSMS') = Len(recentlyProcessedSMS) + 1
               /\ SubSeq(recentlyProcessedSMS', 1, Len(recentlyProcessedSMS))
                    = recentlyProcessedSMS]_vars

\* the cache was full, an insertion removed its oldest quarter, and it was
\* filled and emptied of a quarter once more
C18_Witness ==
  /\ Len(recentlyProcessedSMS) = MAX_CACHE_SIZE - MAX_CACHE_SIZE \div 4 + 1
  /\ recentlyProcessedSMS[1] = 2 * (MAX_CACHE_SIZE \div 4) + 1
  /\ recentlyProcessedSMS[Len(recentlyProcessedSMS)] = MAX_CACHE_SIZE + MAX_CACHE_SIZE \div 4 + 1

\* C19: the callback is invoked for the persisted transactions and no
\* others, once each and in the order they were persisted; at the
\* invocation the record is in the collection, and no later candidate of the
\* same batch has been persisted yet.
C19_NotifiedOncePerPersisted ==
  /\ [](/\ Len(log.notified) = Len(log.persisted)
        /\ \A n \in DOMAIN log.notified : log.notified[n] = log.persisted[n].id)
  /\ [][Len(log.notified') > Len(log.notified) =>
          \A e \in {log.persisted'[Len(log.persisted')]} :
            /\ \E n \in DOMAIN store' : store'[n].id = e.id
            /\ \A k \in InFlightFor(e.l) :
                 /\ cycles[k].cands[cycles[k].i]._id = e.sms
                 /\ \A m \in {cycles[k].cands[n]._id :
                                 n \in (cycles[k].i + 1)..Len(cycles[k].cands)} :
                      Persisted(e.l, m)' = {}]_vars

\* one batch persisted two records and the callback was invoked for both,
\* the newer message first
C19_Witness ==
  /\ Len(log.notified) = 2
  /\ Len(log.persisted) = 2
  /\ log.persisted[1].l = log.persisted[2].l
  /\ log.persisted[1].sms = 2
  /\ log.persisted[2].sms = 1
  /\ log.failed = {}

\* C20: every write of saveTransaction, from the screen or from the polling
\* callback, leaves the records that were in the collection where they
\* were and puts one record after them.
C20_AppendOnly ==
  [][store' # store =>
       /\ Len(store') = Len(store) + 1
       /\ SubSeq(store', 1, Len(store)) = store]_vars

\* the text of a message with its runs of white space collapsed and its ends
\* trimmed, for the bodies of the tables
normalizedBodies == [b \in TableBodies |-> Trim(CollapseWhiteSpace(b))]
\* the body of the inbox message with _id m
BodyOf(m) == inbox[Len(inbox) - m + 1].body

\* C21: a record of the store carries in originalSMS the normalized text
\* of its message: of the inbox message it was extracted from when the
\* polling callback persisted it, of the text of the screen otherwise.
C21_OriginalNormalized ==
  \A n \in DOMAIN store :
    IF \E i \in DOMAIN log.persisted : log.persisted[i].id = store[n].id
    THEN \A i \in DOMAIN log.persisted :
           log.persisted[i].id = store[n].id
             => store[n].originalSMS = normalizedBodies[BodyOf(log.persisted[i].sms)]
    ELSE store[n].originalSMS = normalizedBodies[SpacedDebitSMS]

\* C22: a listener whose isProcessing is true has it false again later.
C22_GuardReleased ==
  \A l \in 1..MaxListeners :
    (l \in DOMAIN listeners /\ listeners[l].isProcessing)
      ~> (l \in DOMAIN listeners /\ ~listeners[l].isProcessing)

\* the listeners whose timer is alive
LiveTimers == {l \in DOMAIN listeners : listeners[l].timer}

\* C24: at most one timer started by the provider is alive, and while the
\* provider is mounted isListening is true exactly when the stop function
\* it holds is that of a live timer.
C24_OneLiveTimer ==
  /\ Cardinality(LiveTimers) <= 1
  /\ provider.mounted = "yes" =>
       (provider.isListening <=> provider.stopListenerCallback \in LiveTimers)

\* C25: no timer is alive once the provider has unmounted, and a step that
\* changes hasPermissions or isAvailable while the provider holds the stop
\* function of a live timer ends that timer.
C25_NoTimerOutlives ==
  /\ [](provider.mounted = "gone" => LiveTimers = {})
  /\ [][(/\ provider.mounted = "yes"
         /\ provider'.mounted = "yes"
         /\ provider.stopListenerCallback \in LiveTimers
         /\ \/ provider'.hasPermissions # provider.hasPermissions
            \/ provider'.isAvailable # provider.isAvailable)
        => provider.stopListenerCallback \notin LiveTimers']_vars

\* C23: with two listeners polling, no inbox message has two persisted
\* records.
C23_OncePerMessageAcrossListeners ==
  \A m \in 1..Len(inbox) :
    Cardinality({i \in DOMAIN log.persisted : log.persisted[i].sms = m}) <= 1

\* an id is in the cache only for a message that one call of
\* processSMSMessage took to the extractor and the extractor parsed
CachedOnlyExtracted ==
  \A n \in DOMAIN recentlyProcessedSMS :
    \E m \in {recentlyProcessedSMS[n]} :
      /\ m \in 1..Len(inbox)
      /\ BodyOf(m) \in transactionBodies
      /\ \E today \in Dates : parsedTransactions[BodyOf(m)][today] # Null
      /\ \E e \in log.checks : e.sms = m /\ e.extracted

\* a message processSMSMessage never caches: isTransactionSMS rejects its
\* body, or the extractor returns null for it
Unextractable(sms) ==
  \/ sms.body \notin transactionBodies
  \/ \A today \in Dates : parsedTransactions[sms.body][today] = Null

\* C26: only extracted messages are cached, and when a batch of a listener
\* has ended every candidate of it that processSMSMessage never caches is
\* still out of the cache and was passed to processSMSMessage in that batch.
C26_UncachedRetried ==
  /\ CachedOnlyExtracted
  /\ \A l \in DOMAIN listeners :
       \A n \in DOMAIN listeners[l].lastBatch.cands :
         Unextractable(listeners[l].lastBatch.cands[n])
           => /\ ~SeqHas(recentlyProcessedSMS, listeners[l].lastBatch.cands[n]._id)
              /\ n <= listeners[l].lastBatch.passed

\* C27: the candidates a polling callback works on, and those of the batch
\* that ended last, are no newer than the id the listener remembers;
\* processing starts only in a step that sets the remembered id to the
\* newest id of the inbox, different from the one remembered before; and
\* the remembered id changes only when an inbox read answers, to the newest
\* id of the inbox.
C27_LastSeenSetFirst ==
  /\ [](\A l \in DOMAIN listeners :
          /\ \A k \in Working(l) : \A n \in DOMAIN cycles[k].cands :
               cycles[k].cands[n]._id <= listeners[l].lastReadSmsId
          /\ \A n \in DOMAIN listeners[l].lastBatch.cands :
               listeners[l].lastBatch.cands[n]._id <= listeners[l].lastReadSmsId)
  /\ [][\A l \in DOMAIN listeners :
          /\ (Working(l) = {} /\ Working(l)' # {})
               => /\ listeners'[l].lastReadSmsId = inbox[1]._id
                  /\ listeners'[l].lastReadSmsId # listeners[l].lastReadSmsId
          /\ listeners'[l].lastReadSmsId # listeners[l].lastReadSmsId
               => /\ \E k \in InFlightFor(l) : cycles[k].pc = "list"
                  /\ Len(inbox) > 0
                  /\ listeners'[l].lastReadSmsId = inbox[1]._id]_vars

\* a batch ended part-way: the listener remembers its newest id, and a
\* candidate that was not passed to processSMSMessage is not in the cache
C27_Witness ==
  \E l \in DOMAIN listeners :
    /\ ~listeners[l].isProcessing
    /\ Len(inbox) > 0
    /\ listeners[l].lastReadSmsId = inbox[1]._id
    /\ listeners[l].lastBatch.passed < Len(listeners[l].lastBatch.cands)
    /\ \E n \in DOMAIN listeners[l].lastBatch.cands :
         /\ n > listeners[l].lastBatch.passed
         /\ ~SeqHas(recentlyProcessedSMS, listeners[l].lastBatch.cands[n]._id)

\* the ids of the messages an inbox read returns now
FetchWindow ==
  {inbox[n]._id : n \in 1..(IF Len(inbox) < FETCH_COUNT THEN Len(inbox) ELSE FETCH_COUNT)}
CachedIds == {recentlyProcessedSMS[n] : n \in DOMAIN recentlyProcessedSMS}

\* C28: no step removes from the cache the id of a message of the fetch
\* window, and a polling callback never starts on a message that has a
\* persisted record.
C28_WindowNeverEvicted ==
  [][/\ (CachedIds \ CachedIds') \cap FetchWindow = {}
     /\ \A l \in DOMAIN listeners :
          \A m \in HandlingOf(l)' \ HandlingOf(l) : Persisted(l, m) = {}]_vars

\* the cache was full and lost its oldest quarter while a batch of twenty
\* was being processed
C28_Witness ==
  /\ Len(recentlyProcessedSMS) > 0
  /\ recentlyProcessedSMS[1] > MAX_CACHE_SIZE \div 4
  /\ \E k \in DOMAIN cycles :
       /\ Len(cycles[k].cands) = FETCH_COUNT
       /\ cycles[k].i > 1
       /\ cycles[k].i < FETCH_COUNT

\* the records of the store that the polling path persisted
AutomaticRecords ==
  {n \in DOMAIN store : \E e \in DOMAIN log.persisted : log.persisted[e].id = store[n].id}

\* C29: every record the polling path persisted has a category and an id,
\* and at the step in which onNewTransaction is called the store holds a
\* record with the id, amount, type and category of the record passed.
C29_NotifiedIsStored ==
  /\ [](\A n \in AutomaticRecords :
          /\ store[n].category \notin {"", UndefinedText}
          /\ store[n].id # 0)
  /\ [][\A k \in DOMAIN cycles :
          (cycles[k].pc = "setItem" /\ Len(log'.notified) > Len(log.notified)) =>
            \A t \in {cycles[k].tx[1]} :
              \E n \in DOMAIN store' :
                /\ store'[n].id = t.id
                /\ store'[n].amount = t.amount
                /\ store'[n].type = t.type
                /\ store'[n].category = t.category]_vars

\* the n-th newest record passed to onNewTransaction, as the store holds it
NotifiedRecord(n) ==
  Val({r \in {store[j] : j \in DOMAIN store} : r.id = log.notified[Len(log.notified) - n + 1]})

\* C30: while SMSProvider is mounted, recentTransactions holds the last
\* min(5, n) of the n records notified, newest first, and lastTransaction is
\* the record notified last (none before the first notification).
C30_RecentIsLastFive ==
  provider.mounted = "yes" =>
    /\ Len(provider.recentTransactions) =
         (IF Len(log.notified) < 5 THEN Len(log.notified) ELSE 5)
    /\ \A n \in DOMAIN provider.recentTransactions :
         provider.recentTransactions[n] = NotifiedRecord(n)
    /\ provider.lastTransaction =
         (IF log.notified = <<>> THEN Null ELSE Some(NotifiedRecord(1)))

\* more than five records were notified, of which the sixth newest is gone
C30_Witness ==
  /\ Len(log.notified) > 5
  /\ Len(provider.recentTransactions) = 5
  /\ provider.recentTransactions[1].id = log.notified[Len(log.notified)]
  /\ \A n \in DOMAIN provider.recentTransactions :
       provider.recentTransactions[n].id # log.notified[Len(log.notified) - 5]

====
